---- MODULE Spec2Model ----
(***************************************************************************)
(* Forecast verification pipeline of api-compare: the two run_compare      *)
(* variants (src/compare_apis/run_compare.py and src/stare/run_compare.py) *)
(* as one state machine.  A run fetches provider rows, writes them as      *)
(* provider_*.csv, loads them with the ERA5 reference feed, derives the    *)
(* 100 m wind variables, joins against ERA5 and writes the metric table    *)
(* (era5_comparison_summary.csv) and the precipitation detection table.    *)
(*                                                                         *)
(* Units: values are integers in tenths of the canonical unit (3500 = 350  *)
(* degrees, 1 = 0.1 mm/h); time is in minutes; latitude and longitude are  *)
(* in hundredths of a degree.                                              *)
(***************************************************************************)
EXTENDS Integers, Sequences, FiniteSets, TLC

VARIABLES
    variant,        \* which run_compare.py runs: "compare_apis" or "stare"
    grid_step,      \* args.grid_step (stare only; 0 = exact join)
    rows,           \* what each requested provider's fetch_* returned
    era5_csv,       \* the rows of the ERA5 long CSV (args.era5)
    outdir,         \* provider_<prov>.csv files in outdir: provider -> rows
    era5,           \* the loaded reference frame
    providers_df,   \* the provider frame (loaded, then derived and filtered)
    merged,         \* the joined rows
    full,           \* the rows of era5_comparison_summary.csv
    ev_df,          \* the rows of precip_detection_metrics.csv
    patterns,       \* the rows of api_patterns.csv
    pc,             \* position in run()
    era5_data,      \* consolidated_analysis: the wide ERA5 frame of a variable
    provider_data,  \* consolidated_analysis: the wide provider frame
    metrics,        \* consolidated_analysis: calculate_weather_metrics' result
    central,        \* the rows of central_weather_results.csv
    now,            \* the clock read by datetime.now(), in runs
    all_df,         \* analyze_summaries: the rows of all summary files
    stats,          \* analyze_summaries: the rows of history_provider_stats.csv
    bias_patterns,  \* analyze_summaries: the bias table of HISTORY_REPORT.md
    hpc,            \* analyze_summaries: position in main()
    max_workers,    \* batch_analyzer: the size of the thread pool
    tasks,          \* batch_analyzer: the analysis of each location
    results,        \* batch_analyzer: the results collected so far
    ow_current,     \* fetch_openweather: the hour the historical loop is at
    ow_rows,        \* fetch_openweather: the rows collected so far
    ow_r,           \* fetch_openweather: the last HTTP response
    ow_pc,          \* fetch_openweather: where the historical loop is
    summary_full,   \* run_compare: the metric row about to be written, by column
    summary_csv,    \* era5_comparison_summary.csv: the written row, by header
    summary_out,    \* analyze_summaries: the normalised row, by canonical column
    summary_pc,     \* where the summary file is on its way
    arg_call,       \* the caller of consolidated_analysis.py and what it was given
    cmd,            \* the options of the command line built
    returncode,     \* the exit code of consolidated_analysis.py
    arg_pc          \* where the call is

\* the state of consolidated_analysis.py
consVars == <<era5_data, provider_data, metrics>>

ledgerVars == <<central, now>>

histVars == <<all_df, stats, bias_patterns, hpc>>

batchVars == <<max_workers, tasks, results>>

owVars == <<ow_current, ow_rows, ow_r, ow_pc>>

sumVars == <<summary_full, summary_csv, summary_out, summary_pc>>

argVars == <<arg_call, cmd, returncode, arg_pc>>

\* what a run of run_compare.py leaves alone
otherVars == <<consVars, ledgerVars, histVars, batchVars, owVars, sumVars, argVars>>

vars == <<variant, grid_step, rows, era5_csv, outdir, era5, providers_df,
          merged, full, ev_df, patterns, pc, otherVars>>

----------------------------------------------------------------------------
(* Bounds of the model *)

\* total number of rows over the provider feeds and the ERA5 feed of a run
MaxRows == 3
\* feeds hold the hours 0..MaxHour
MaxHour == 1

(* Program constants *)

MinutesPerHour == 60
\* (100/10)^0.143 = 1.38995..., in thousandths
PowerFactor == 1390
\* --precip-thresh default 0.1 mm/h, in tenths
PrecipThresh == 1
\* 180 and 360 degrees in tenths
HalfCircle == 1800
FullCircle == 3600
\* --grid-step value used when grid snapping is on (0.25 degrees)
GridStepOn == 25
\* --lat / --lon of the run, in hundredths of a degree
ArgLat == 5225
ArgLon == 2100
\* latitude of a neighbouring ERA5 point (same 0.25 degree cell as ArgLat)
NearLat == 5230

TARGET_VARS == {"precipitation", "temperature_2m", "wind_speed_100m", "wind_direction_100m"}

Providers == {"openmeteo", "weatherapi"}
\* the order in which provider files are concatenated
ProviderOrder == <<"openmeteo", "weatherapi">>

\* the variables a fetcher can emit: Open-Meteo reports 10 m and 100 m wind,
\* WeatherAPI only 10 m wind (so the 10 m -> 100 m mapping that
\* fetch_weatherapi_data applies to every WeatherAPI row never meets a native
\* 100 m value)
Emits(prov) ==
    IF prov = "openmeteo"
    THEN {"temperature_2m", "precipitation", "wind_speed_100m",
          "wind_direction_100m", "wind_speed_10m", "wind_direction_10m"}
    ELSE {"temperature_2m", "precipitation", "wind_speed_10m",
          "wind_direction_10m"}

Variants == {"compare_apis", "stare"}

----------------------------------------------------------------------------
(* Numbers: a table cell is a fraction in lowest terms or not-a-number *)

RECURSIVE GCD(_, _)
GCD(a, b) == IF b = 0 THEN a ELSE GCD(b, a % b)

Abs(x) == IF x < 0 THEN -x ELSE x

NaN == [nan |-> TRUE, num |-> 0, den |-> 1]

Frac(n, d) ==
    LET g == GCD(Abs(n), d)
    IN  [nan |-> FALSE, num |-> n \div g, den |-> d \div g]

Whole(n) == Frac(n, 1)

IsNaN(q) == q.nan

\* q is a number and lo <= q <= hi (lo, hi integers)
Within(q, lo, hi) == ~q.nan /\ lo * q.den <= q.num /\ q.num <= hi * q.den

\* numpy's round-half-to-even of n/d (d > 0) to an integer
RoundHalfEven(n, d) ==
    LET f == n \div d
        r == n % d
    IN  IF 2 * r > d THEN f + 1
        ELSE IF 2 * r < d THEN f
        ELSE IF f % 2 = 0 THEN f ELSE f + 1

\* Series.round(2) of the fraction n/d
Round2(n, d) == Frac(RoundHalfEven(100 * n, d), 100)

\* sqrt of a cell, kept exact as its radicand
Sqrt(q) == [radicand |-> q]

----------------------------------------------------------------------------
(* Sequences as data frames *)

RECURSIVE SumUpTo(_, _)
SumUpTo(s, n) == IF n = 0 THEN 0 ELSE s[n] + SumUpTo(s, n - 1)

\* the sum of a column (a sequence of integers)
SumSeq(s) == SumUpTo(s, Len(s))

RECURSIVE Concat(_)
Concat(ss) == IF ss = <<>> THEN <<>> ELSE Head(ss) \o Concat(Tail(ss))

Range(s) == {s[i] : i \in 1..Len(s)}

----------------------------------------------------------------------------
(* Loading the feeds *)

\* write_long_csv: the fetched (time, variable, value) rows with the run's
\* latitude and longitude
write_long_csv(lat, lon, rws) ==
    [i \in 1..Len(rws) |->
        [time |-> rws[i].time, latitude |-> lat, longitude |-> lon,
         variable |-> rws[i].variable, value |-> rws[i].value]]

\* round_to_hour: floor to the full hour
round_to_hour(t) == (t \div MinutesPerHour) * MinutesPerHour

\* the columns load_long_csv requires
req == {"time", "latitude", "longitude", "variable", "value"}

\* load_long_csv raises ValueError: the file lacks a required column
MissingColumn(csv) == \E i \in 1..Len(csv) : ~(req \subseteq DOMAIN csv[i])

\* some provider file of outdir makes load_provider raise
Raises(files) == \E p \in DOMAIN files : MissingColumn(files[p])

\* load_long_csv of compare_apis: the rows as they are in the file (every
\* row of a feed has its five fields, so dropna drops none)
load_long_csv(csv) == csv

\* load_long_csv of stare: the same with time floored to the hour
load_long_csv_stare(csv) ==
    [i \in 1..Len(csv) |-> [csv[i] EXCEPT !.time = round_to_hour(@)]]

\* load_provider: the file's rows with the provider column (no row is
\* derived yet: the __derived__ tag is absent)
load_provider(prov, csv) ==
    [i \in 1..Len(csv) |->
        [time |-> csv[i].time, latitude |-> csv[i].latitude,
         longitude |-> csv[i].longitude, variable |-> csv[i].variable,
         value |-> csv[i].value, provider |-> prov, derived |-> FALSE]]

\* pd.concat of the provider files found in outdir, each loaded with the
\* load_long_csv of the program v
LoadProviders(files, v) ==
    LET found == SelectSeq(ProviderOrder, LAMBDA p : p \in DOMAIN files)
    IN  Concat([i \in 1..Len(found) |->
                   load_provider(found[i],
                                 IF v = "stare"
                                 THEN load_long_csv_stare(files[found[i]])
                                 ELSE load_long_csv(files[found[i]]))])

\* the ERA5 rows of exactly the point (lat, lon) that is compared
Era5AtPoint(df, lat, lon) ==
    SelectSeq(df, LAMBDA r : r.latitude = lat /\ r.longitude = lon)

----------------------------------------------------------------------------
(* Variable Deriver *)

\* U100 = U10 * (100/10)^alpha, alpha = 0.143
PowerLaw(v) == (v * PowerFactor) \div 1000

SameDirection(v) == v

\* the 100 m value computed from the 10 m value of variable v10
Derived100(v10, value) ==
    IF v10 = "wind_speed_10m" THEN PowerLaw(value) ELSE SameDirection(value)

\* the merge keys without the provider: a native 100 m row of any provider
\* counts as present
SameDeriveKeyAnyProvider(a, h) ==
    /\ a.time = h.time
    /\ a.latitude = h.latitude
    /\ a.longitude = h.longitude
    /\ a.variable = h.variable

\* keys = ["time","latitude","longitude","provider","variable"] of the merge
\* of the candidate rows with the native 100 m rows
SameDeriveKey(a, h) ==
    /\ a.time = h.time
    /\ a.latitude = h.latitude
    /\ a.longitude = h.longitude
    /\ a.provider = h.provider
    /\ a.variable = h.variable

\* the block without the test for native rows: every recomputed row is appended
DeriveBlockNoHave(df, v10, v100) ==
    LET base == SelectSeq(df, LAMBDA r : r.variable = v10)
    IN  df \o [i \in 1..Len(base) |->
                  [base[i] EXCEPT !.value = Derived100(v10, @), !.variable = v100,
                                  !.derived = TRUE]]

\* one block of ensure_target_vars (compare_apis): the v10 rows recomputed as
\* v100 rows, kept where the left merge with the native v100 rows finds no
\* match, tagged as derived and appended
DeriveBlock(df, v10, v100) ==
    IF \E i \in 1..Len(df) : df[i].variable = v10
    THEN LET base == SelectSeq(df, LAMBDA r : r.variable = v10)
             add  == [i \in 1..Len(base) |->
                         [base[i] EXCEPT !.value = Derived100(v10, @),
                                         !.variable = v100, !.derived = TRUE]]
             have == SelectSeq(df, LAMBDA r : r.variable = v100)
             new  == SelectSeq(add, LAMBDA a :
                         ~ \E j \in 1..Len(have) : SameDeriveKey(a, have[j]))
         IN  df \o new
    ELSE df

\* ensure_target_vars of compare_apis, on the frame of all providers
ensure_target_vars(df) ==
    DeriveBlock(DeriveBlock(df, "wind_speed_10m", "wind_speed_100m"),
                "wind_direction_10m", "wind_direction_100m")

\* one block of ensure_target_vars (stare): only when the frame holds no v100
\* row at all, every v10 row is copied as a v100 row; nothing is tagged
DeriveBlockStare(out, v10, v100) ==
    IF (~ \E i \in 1..Len(out) : out[i].variable = v100)
       /\ (\E i \in 1..Len(out) : out[i].variable = v10)
    THEN LET w == SelectSeq(out, LAMBDA r : r.variable = v10)
         IN  out \o [i \in 1..Len(w) |->
                        [w[i] EXCEPT !.value = Derived100(v10, @), !.variable = v100]]
    ELSE out

\* ensure_target_vars of stare, on the frame of one provider
ensure_target_vars_stare(df) ==
    IF df = <<>> THEN df
    ELSE DeriveBlockStare(
             DeriveBlockStare(df, "wind_speed_10m", "wind_speed_100m"),
             "wind_direction_10m", "wind_direction_100m")

\* stare: the deriver applied per provider (groupby provider), concatenated
DerivePerProvider(prov_all) ==
    Concat([i \in 1..Len(ProviderOrder) |->
        ensure_target_vars_stare(
            SelectSeq(prov_all, LAMBDA r : r.provider = ProviderOrder[i]))])

\* keep the four target variables
OnlyTargetVars(df) == SelectSeq(df, LAMBDA r : r.variable \in TARGET_VARS)

\* providers_df[...] = round_to_hour(providers_df["time"])
FloorTimes(df) == [i \in 1..Len(df) |-> [df[i] EXCEPT !.time = round_to_hour(@)]]

\* compare_apis: the provider frame that is counted and joined
DerivedCompareApis(df) == OnlyTargetVars(ensure_target_vars(df))

\* stare: the provider frame that is counted and joined
DerivedStare(df) == FloorTimes(OnlyTargetVars(DerivePerProvider(df)))

----------------------------------------------------------------------------
(* Spatio-temporal aligner *)

\* a row of merged: the provider row with value renamed pred_value and the
\* matching ERA5 value
JoinRow(l, r) ==
    [time |-> l.time, latitude |-> l.latitude, longitude |-> l.longitude,
     variable |-> l.variable, provider |-> l.provider, derived |-> l.derived,
     pred_value |-> l.value, era5_value |-> r.value]

\* on=["time","latitude","longitude","variable"]
ExactKey(l, r) ==
    /\ l.time = r.time
    /\ l.latitude = r.latitude
    /\ l.longitude = r.longitude
    /\ l.variable = r.variable

\* snap: np.round(x / s) * s
snap(x, s) == RoundHalfEven(x, s) * s

\* left_on = right_on = ["time","lat_g","lon_g","variable"]
GridKey(l, r, s) ==
    /\ l.time = r.time
    /\ snap(l.latitude, s) = snap(r.latitude, s)
    /\ snap(l.longitude, s) = snap(r.longitude, s)
    /\ l.variable = r.variable

\* the merge keys: the snapped ones when step > 0
SameJoinKey(l, r, step) ==
    IF step > 0 THEN GridKey(l, r, step) ELSE ExactKey(l, r)

\* the right rows with the key of the left row l, each joined to l
JoinedTo(l, right, step) ==
    LET hit == SelectSeq(right, LAMBDA r : SameJoinKey(l, r, step))
    IN  [j \in 1..Len(hit) |-> JoinRow(l, hit[j])]

\* DataFrame.merge(how="inner"): one row per pair of a left and a right row
\* with equal keys, in the order of the left rows
InnerMerge(left, right, step) ==
    Concat([i \in 1..Len(left) |-> JoinedTo(left[i], right, step)])

\* compare_apis: the join with the target variables of ERA5
MergedCompareApis(prov, e5) == InnerMerge(prov, OnlyTargetVars(e5), 0)

\* stare: the join, on snapped coordinates when --grid-step > 0
MergedStare(prov, e5c, step) == InnerMerge(prov, e5c, step)

----------------------------------------------------------------------------
(* Metrics calculator *)

DirectionVars == {"wind_direction_10m", "wind_direction_100m"}

\* variable.str.contains("wind_direction")
IsWdir(v) == v \in DirectionVars

\* the difference taken the other way round
LinearErrorReversed(r) == r.era5_value - r.pred_value

\* merged["error"] = pred_value - era5_value
LinearError(r) == r.pred_value - r.era5_value

\* circular_error_deg: ((pred - true + 180) % 360) - 180
circular_error_deg(pred, true) ==
    ((pred - true + HalfCircle) % FullCircle) - HalfCircle

\* the error column of compare_apis' summary: linear for every variable
ErrorCompareApis(r) == LinearError(r)

\* the error column of stare's summary: circular for wind direction
ErrorStare(r) ==
    IF IsWdir(r.variable) THEN circular_error_deg(r.pred_value, r.era5_value)
    ELSE LinearError(r)

\* error_angle of the per-API analysis (both variants)
ErrorAngle(r) ==
    IF IsWdir(r.variable) THEN circular_error_deg(r.pred_value, r.era5_value)
    ELSE r.error

\* merged with the error column of the program v
AddColumn(df, v) ==
    [i \in 1..Len(df) |->
        [time |-> df[i].time, latitude |-> df[i].latitude,
         longitude |-> df[i].longitude, variable |-> df[i].variable,
         provider |-> df[i].provider, derived |-> df[i].derived,
         pred_value |-> df[i].pred_value, era5_value |-> df[i].era5_value,
         error |-> IF v = "stare" THEN ErrorStare(df[i])
                   ELSE ErrorCompareApis(df[i])]]

GroupRows(df, prov, var) ==
    SelectSeq(df, LAMBDA r : r.provider = prov /\ r.variable = var)

GroupKeys(df) == {<<r.provider, r.variable>> : r \in Range(df)}

NaNCorr == [nan |-> TRUE, cov |-> 0, var_pred |-> 0, var_era5 |-> 0]

\* np.corrcoef(pred, era5)[0, 1], kept exact as n*Sxy - Sx*Sy over the two
\* n-fold variances (0/0 is not-a-number)
CorrCoef(g) ==
    LET n   == Len(g)
        sx  == SumSeq([i \in 1..Len(g) |-> g[i].pred_value])
        sy  == SumSeq([i \in 1..Len(g) |-> g[i].era5_value])
        sxx == SumSeq([i \in 1..Len(g) |-> g[i].pred_value * g[i].pred_value])
        syy == SumSeq([i \in 1..Len(g) |-> g[i].era5_value * g[i].era5_value])
        sxy == SumSeq([i \in 1..Len(g) |-> g[i].pred_value * g[i].era5_value])
        vx  == n * sxx - sx * sx
        vy  == n * syy - sy * sy
    IN  IF vx = 0 \/ vy = 0 THEN NaNCorr
        ELSE [nan |-> FALSE, cov |-> n * sxy - sx * sy,
              var_pred |-> vx, var_era5 |-> vy]

\* _corr / _corr_block: not-a-number below 3 rows, else np.corrcoef
Corr(g) == IF Len(g) < 3 THEN NaNCorr ELSE CorrCoef(g)

\* the aggregation of one (provider, variable) group of merged
Agg(g) ==
    LET n == Len(g)
    IN  [n_overlap |-> Whole(n),
         bias_mean |-> Frac(SumSeq([i \in 1..Len(g) |-> g[i].error]), n),
         mae       |-> Frac(SumSeq([i \in 1..Len(g) |-> Abs(g[i].error)]), n),
         rmse      |-> Sqrt(Frac(SumSeq([i \in 1..Len(g) |-> g[i].error * g[i].error]), n)),
         corr      |-> Corr(g),
         over_pct  |-> Frac(100 * Len(SelectSeq(g, LAMBDA r : r.error > 0)), n),
         under_pct |-> Frac(100 * Len(SelectSeq(g, LAMBDA r : r.error < 0)), n)]

\* the cells of a group without metrics: n_overlap as given, the rest NaN
NoMetrics(n) ==
    [n_overlap |-> n, bias_mean |-> NaN, mae |-> NaN, rmse |-> Sqrt(NaN),
     corr |-> NaNCorr, over_pct |-> NaN, under_pct |-> NaN]

\* count_derived: the rows of a group that carry the __derived__ tag
count_derived(df, prov, var) == Len(SelectSeq(GroupRows(df, prov, var), LAMBDA r : r.derived))

\* the count used by coverage: n_overlap.fillna(0)
FillNa0(q) == IF q.nan THEN 0 ELSE q.num

\* compare_apis: prov_counts, left-merged with the metrics (or, when merged is
\* empty, n_overlap = 0 and the statistics NaN), then coverage and derived
SummaryCompareApis(prov, mrg) ==
    { LET p  == k[1]
          v  == k[2]
          np == Len(GroupRows(prov, p, v))
          g  == GroupRows(mrg, p, v)
          m  == IF mrg = <<>> THEN NoMetrics(Whole(0))
                ELSE IF g = <<>> THEN NoMetrics(NaN)
                ELSE Agg(g)
          dn == count_derived(prov, p, v)
      IN  [provider |-> p, variable |-> v, n_provider |-> np,
           n_overlap |-> m.n_overlap,
           coverage_pct |-> Round2(100 * FillNa0(m.n_overlap), np),
           derived_n |-> dn,
           derived_pct |-> Round2(100 * dn, np),
           bias_mean |-> m.bias_mean, mae |-> m.mae, rmse |-> m.rmse,
           corr |-> m.corr, over_pct |-> m.over_pct, under_pct |-> m.under_pct]
      : k \in GroupKeys(prov) }

\* stare: the metrics of the groups of merged, left-merged with cover
\* (n_api, n_era5, coverage_pct); derived_pct is set to 0.0
SummaryStare(prov, mrg) ==
    { LET p  == k[1]
          v  == k[2]
          np == Len(GroupRows(prov, p, v))
          g  == GroupRows(mrg, p, v)
          m  == Agg(g)
      IN  [provider |-> p, variable |-> v, n_provider |-> np,
           n_overlap |-> Whole(Len(g)),
           coverage_pct |-> IF np > 0 THEN Frac(100 * Len(g), np) ELSE NaN,
           derived_pct |-> Whole(0),
           bias_mean |-> m.bias_mean, mae |-> m.mae, rmse |-> m.rmse,
           corr |-> m.corr, over_pct |-> m.over_pct, under_pct |-> m.under_pct]
      : k \in GroupKeys(mrg) }

----------------------------------------------------------------------------
(* Per-API analysis: patterns and precipitation detection *)

FracMul(a, b) == Frac(a.num * b.num, a.den * b.den)

FracSub(a, b) == Frac(a.num * b.den - b.num * a.den, a.den * b.den)

NoFit == [slope |-> NaN, intercept |-> NaN, R2 |-> NaNCorr]

\* linfit(era5_value, pred_value): below 3 points not-a-number; else the
\* least-squares solution of np.linalg.lstsq.  R2 = 1 - ss_res/ss_tot is kept
\* as the squared correlation cov^2 / (var_pred * var_era5), not-a-number
\* when ss_tot = 0.  With all reference values equal to c the design matrix
\* has rank 1 and lstsq returns the minimum-norm solution
\* slope = c*mean(y)/(c^2+1), intercept = mean(y)/(c^2+1) (here with c and
\* the intercept in tenths), whose prediction is mean(y), so R2 = 0.
linfit(g) ==
    IF Len(g) < 3 THEN NoFit
    ELSE LET n   == Len(g)
             sx  == SumSeq([i \in 1..n |-> g[i].era5_value])
             sy  == SumSeq([i \in 1..n |-> g[i].pred_value])
             sxx == SumSeq([i \in 1..n |-> g[i].era5_value * g[i].era5_value])
             syy == SumSeq([i \in 1..n |-> g[i].pred_value * g[i].pred_value])
             sxy == SumSeq([i \in 1..n |-> g[i].era5_value * g[i].pred_value])
             vx  == n * sxx - sx * sx
             vy  == n * syy - sy * sy
             cov == n * sxy - sx * sy
             c   == g[1].era5_value
         IN  IF vx = 0
             THEN [slope |-> Frac(c * sy, n * (c * c + 100)),
                   intercept |-> Frac(100 * sy, n * (c * c + 100)),
                   R2 |-> IF vy = 0 THEN NaNCorr
                          ELSE [nan |-> FALSE, cov |-> 0, var_pred |-> vy,
                                var_era5 |-> 1]]
             ELSE [slope |-> Frac(cov, vx),
                   intercept |-> FracSub(Frac(sy, n),
                                         FracMul(Frac(cov, vx), Frac(sx, n))),
                   R2 |-> IF vy = 0 THEN NaNCorr
                          ELSE [nan |-> FALSE, cov |-> cov, var_pred |-> vy,
                                var_era5 |-> vx]]

\* api_patterns.csv: bias, MAE and RMSE of error_angle and the linear fit per
\* group, with the coverage and derived columns of the summary joined on
Patterns(m2, summary) ==
    { LET p == k[1]
          v == k[2]
          g == GroupRows(m2, p, v)
          n == Len(g)
      IN  [provider |-> p, variable |-> v,
           bias |-> Frac(SumSeq([i \in 1..Len(g) |-> ErrorAngle(g[i])]), n),
           MAE  |-> Frac(SumSeq([i \in 1..Len(g) |-> Abs(ErrorAngle(g[i]))]), n),
           RMSE |-> Sqrt(Frac(SumSeq([i \in 1..Len(g) |-> ErrorAngle(g[i]) * ErrorAngle(g[i])]), n)),
           slope |-> linfit(g).slope,
           intercept |-> linfit(g).intercept,
           R2 |-> linfit(g).R2,
           coverage |-> {f.coverage_pct : f \in {x \in summary : x.provider = p /\ x.variable = v}},
           derived  |-> {f.derived_pct : f \in {x \in summary : x.provider = p /\ x.variable = v}}]
      : k \in GroupKeys(m2) }

Ratio(n, d) == IF d > 0 THEN Frac(n, d) ELSE NaN

\* an event test that includes the threshold itself
IsEventInclusive(value, thr) == value >= thr

\* pred_ev / era_ev: value > thr
IsEvent(value, thr) == value > thr

\* POD, FAR and CSI of one provider's joined precipitation rows
EventSkill(prov, dfp, thr) ==
    LET TP == Len(SelectSeq(dfp, LAMBDA r : IsEvent(r.pred_value, thr) /\ IsEvent(r.era5_value, thr)))
        FP == Len(SelectSeq(dfp, LAMBDA r : IsEvent(r.pred_value, thr) /\ ~IsEvent(r.era5_value, thr)))
        FN == Len(SelectSeq(dfp, LAMBDA r : ~IsEvent(r.pred_value, thr) /\ IsEvent(r.era5_value, thr)))
    IN  [provider |-> prov,
         POD |-> Ratio(TP, TP + FN),
         FAR |-> Ratio(FP, TP + FP),
         CSI |-> Ratio(TP, TP + FP + FN)]

\* precip_detection_metrics.csv: one row per provider with joined
\* precipitation rows
PrecipDetection(m2, thr) ==
    LET precip == SelectSeq(m2, LAMBDA r : r.variable = "precipitation")
    IN  { EventSkill(p, SelectSeq(precip, LAMBDA r : r.provider = p), thr)
          : p \in {r.provider : r \in Range(precip)} }

----------------------------------------------------------------------------
(* The feeds of a run *)

Times == {h * MinutesPerHour : h \in 0..MaxHour}

Families == {"wind_speed", "wind_direction", "precipitation"}

\* what the providers report, and what ERA5 holds, per family of variables
ProvVars(fam) ==
    CASE fam = "wind_speed"     -> {"wind_speed_10m", "wind_speed_100m"}
      [] fam = "wind_direction" -> {"wind_direction_10m", "wind_direction_100m"}
      [] fam = "precipitation"  -> {"precipitation"}

RefVars(fam) ==
    CASE fam = "wind_speed"     -> {"wind_speed_100m"}
      [] fam = "wind_direction" -> {"wind_direction_100m"}
      [] fam = "precipitation"  -> {"precipitation"}

ProvValues(fam) ==
    CASE fam = "wind_speed"     -> {50}
      [] fam = "wind_direction" -> {3500, 50}
      [] fam = "precipitation"  -> {1, 2}

RefValues(fam) ==
    CASE fam = "wind_speed"     -> {60}
      [] fam = "wind_direction" -> {100, 3550}
      [] fam = "precipitation"  -> {1, 2}

\* a fetched row (time_iso, variable, value)
FetchRows(prov, fam) ==
    [time : Times, variable : ProvVars(fam) \cap Emits(prov), value : ProvValues(fam)]

\* a row of the ERA5 long CSV
Era5Rows(fam) ==
    [time : Times, latitude : {ArgLat, NearLat}, longitude : {ArgLon},
     variable : RefVars(fam), value : RefValues(fam)]

\* the order in which a fetcher emits the variables of one time step
VarOrder == <<"temperature_2m", "precipitation", "wind_speed_100m",
              "wind_direction_100m", "wind_speed_10m", "wind_direction_10m">>

VarRank(v) == CHOOSE i \in 1..Len(VarOrder) : VarOrder[i] = v

\* feeds list their rows time step by time step, the variables of a step in
\* the fetcher's order; rows with the same time and variable may repeat
InFeedOrder(s) ==
    \A i \in 1..Len(s) - 1 :
        \/ s[i].time < s[i + 1].time
        \/ s[i].time = s[i + 1].time
           /\ VarRank(s[i].variable) <= VarRank(s[i + 1].variable)

Feeds(U, n) == {s \in [1..n -> U] : InFeedOrder(s)}

NoFile == [p \in {} |-> <<>>]

\* an absent data frame
NoFrame == [has |-> FALSE, rows |-> <<>>]

\* consolidated_analysis.py has not run
ConsIdle ==
    /\ era5_data = NoFrame
    /\ provider_data = NoFrame
    /\ metrics = <<>>

\* no central results file, no run of consolidated_analysis.py yet
LedgerIdle ==
    /\ central = <<>>
    /\ now = 0

\* analyze_summaries.py is not running
HistIdle ==
    /\ all_df = <<>>
    /\ stats = {}
    /\ bias_patterns = {}
    /\ hpc = "idle"

\* batch_analyzer.py is not running
BatchIdle ==
    /\ max_workers = 0
    /\ tasks = <<>>
    /\ results = <<>>

\* the answer before any request
NoResponse == [status |-> 0, kind |-> "none", temp |-> FALSE, wind_speed |-> FALSE, rain |-> 0]

\* fetch_openweather is not running
OwIdle ==
    /\ ow_current = 0
    /\ ow_rows = <<>>
    /\ ow_r = NoResponse
    /\ ow_pc = "idle"

\* no summary file is on its way
SumIdle ==
    /\ summary_full = <<>>
    /\ summary_csv = <<>>
    /\ summary_out = <<>>
    /\ summary_pc = "idle"

\* no call of consolidated_analysis.py is under way
ArgIdle ==
    /\ arg_call = <<>>
    /\ cmd = <<>>
    /\ returncode = 0
    /\ arg_pc = "idle"

OtherIdle == ConsIdle /\ LedgerIdle /\ HistIdle /\ BatchIdle /\ OwIdle /\ SumIdle /\ ArgIdle

Init ==
    /\ variant \in Variants
    /\ grid_step \in (IF variant = "stare" THEN {0, GridStepOn} ELSE {0})
    /\ \E fam \in Families :
         \E a, b, c \in 0..MaxRows :
            /\ a + b + c <= MaxRows
            /\ rows \in [openmeteo : Feeds(FetchRows("openmeteo", fam), a),
                         weatherapi : Feeds(FetchRows("weatherapi", fam), b)]
            /\ era5_csv \in Feeds(Era5Rows(fam), c)
    /\ outdir = NoFile
    /\ era5 = <<>>
    /\ providers_df = <<>>
    /\ merged = <<>>
    /\ full = {}
    /\ ev_df = {}
    /\ patterns = {}
    /\ pc = "fetch"
    /\ OtherIdle

----------------------------------------------------------------------------
(* run() *)

\* the fetch loop: a provider with rows gets its provider_<prov>.csv; a file
\* already in outdir stays as it is when its provider delivers no rows
Fetch ==
    /\ pc = "fetch"
    /\ outdir' = [p \in DOMAIN outdir \cup {q \in Providers : rows[q] # <<>>} |->
                     IF rows[p] # <<>>
                     THEN write_long_csv(ArgLat, ArgLon, rows[p])
                     ELSE outdir[p]]
    /\ pc' = "load"
    /\ UNCHANGED otherVars
    /\ UNCHANGED <<variant, grid_step, rows, era5_csv, era5, providers_df,
                   merged, full, ev_df, patterns>>

\* compare_apis: load ERA5 and the provider files; no file: return
LoadCompareApis ==
    /\ pc = "load"
    /\ variant = "compare_apis"
    /\ era5' = load_long_csv(era5_csv)
    /\ IF DOMAIN outdir = {}
       THEN providers_df' = <<>> /\ pc' = "done"
       ELSE IF Raises(outdir)
       THEN providers_df' = <<>> /\ pc' = "raised"
       ELSE providers_df' = LoadProviders(outdir, "compare_apis") /\ pc' = "derive"
    /\ UNCHANGED otherVars
    /\ UNCHANGED <<variant, grid_step, rows, era5_csv, outdir, merged, full,
                   ev_df, patterns>>

\* stare: load ERA5 at the compared point and the provider files; no file:
\* an empty summary is written
LoadStare ==
    /\ pc = "load"
    /\ variant = "stare"
    /\ era5' = Era5AtPoint(load_long_csv_stare(era5_csv), ArgLat, ArgLon)
    /\ IF DOMAIN outdir = {}
       THEN providers_df' = <<>> /\ pc' = "done"
       ELSE IF Raises(outdir)
       THEN providers_df' = <<>> /\ pc' = "raised"
       ELSE providers_df' = LoadProviders(outdir, "stare") /\ pc' = "derive"
    /\ UNCHANGED otherVars
    /\ UNCHANGED <<variant, grid_step, rows, era5_csv, outdir, merged, full,
                   ev_df, patterns>>

\* compare_apis: derive the 100 m variables on the whole frame, keep the
\* target variables
DeriveCompareApis ==
    /\ pc = "derive"
    /\ variant = "compare_apis"
    /\ providers_df' = DerivedCompareApis(providers_df)
    /\ pc' = "merge"
    /\ UNCHANGED otherVars
    /\ UNCHANGED <<variant, grid_step, rows, era5_csv, outdir, era5, merged,
                   full, ev_df, patterns>>

\* stare: derive per provider, keep the target variables on both sides, floor
\* the times; nothing left on one side: an empty summary is written
DeriveStare ==
    /\ pc = "derive"
    /\ variant = "stare"
    /\ providers_df' = DerivedStare(providers_df)
    /\ era5' = FloorTimes(OnlyTargetVars(era5))
    /\ pc' = IF providers_df' = <<>> \/ era5' = <<>> THEN "done" ELSE "merge"
    /\ UNCHANGED otherVars
    /\ UNCHANGED <<variant, grid_step, rows, era5_csv, outdir, merged, full,
                   ev_df, patterns>>

\* compare_apis: inner join with the target variables of ERA5
MergeCompareApis ==
    /\ pc = "merge"
    /\ variant = "compare_apis"
    /\ merged' = MergedCompareApis(providers_df, era5)
    /\ pc' = "metrics"
    /\ UNCHANGED otherVars
    /\ UNCHANGED <<variant, grid_step, rows, era5_csv, outdir, era5,
                   providers_df, full, ev_df, patterns>>

\* stare: inner join, on snapped coordinates when --grid-step > 0; no joined
\* row: a summary of headers only is written
MergeStare ==
    /\ pc = "merge"
    /\ variant = "stare"
    /\ merged' = MergedStare(providers_df, era5, grid_step)
    /\ pc' = IF merged' = <<>> THEN "done" ELSE "metrics"
    /\ UNCHANGED otherVars
    /\ UNCHANGED <<variant, grid_step, rows, era5_csv, outdir, era5,
                   providers_df, full, ev_df, patterns>>

\* compare_apis: the error column and the summary; the analysis follows only
\* when merged has rows
MetricsCompareApis ==
    /\ pc = "metrics"
    /\ variant = "compare_apis"
    /\ merged' = AddColumn(merged, "compare_apis")
    /\ full' = SummaryCompareApis(providers_df, merged')
    /\ pc' = IF merged = <<>> THEN "done" ELSE "analysis"
    /\ UNCHANGED otherVars
    /\ UNCHANGED <<variant, grid_step, rows, era5_csv, outdir, era5,
                   providers_df, ev_df, patterns>>

\* stare: the error column and the summary
MetricsStare ==
    /\ pc = "metrics"
    /\ variant = "stare"
    /\ merged' = AddColumn(merged, "stare")
    /\ full' = SummaryStare(providers_df, merged')
    /\ pc' = "analysis"
    /\ UNCHANGED otherVars
    /\ UNCHANGED <<variant, grid_step, rows, era5_csv, outdir, era5,
                   providers_df, ev_df, patterns>>

\* compare_apis: api_patterns.csv and precip_detection_metrics.csv; the
\* error_angle column is created only when merged has a wind direction row,
\* and reading it without one raises KeyError
AnalysisCompareApis ==
    /\ pc = "analysis"
    /\ variant = "compare_apis"
    /\ IF \E i \in 1..Len(merged) : IsWdir(merged[i].variable)
       THEN /\ patterns' = Patterns(merged, full)
            /\ ev_df' = PrecipDetection(merged, PrecipThresh)
            /\ pc' = "done"
       ELSE /\ pc' = "raised"
            /\ UNCHANGED <<patterns, ev_df>>
    /\ UNCHANGED otherVars
    /\ UNCHANGED <<variant, grid_step, rows, era5_csv, outdir, era5,
                   providers_df, merged, full>>

\* stare: api_patterns.csv and precip_detection_metrics.csv
AnalysisStare ==
    /\ pc = "analysis"
    /\ variant = "stare"
    /\ patterns' = Patterns(merged, full)
    /\ ev_df' = PrecipDetection(merged, PrecipThresh)
    /\ pc' = "done"
    /\ UNCHANGED otherVars
    /\ UNCHANGED <<variant, grid_step, rows, era5_csv, outdir, era5,
                   providers_df, merged, full>>

Next ==
    \/ Fetch
    \/ LoadCompareApis
    \/ LoadStare
    \/ DeriveCompareApis
    \/ DeriveStare
    \/ MergeCompareApis
    \/ MergeStare
    \/ MetricsCompareApis
    \/ MetricsStare
    \/ AnalysisCompareApis
    \/ AnalysisStare

Spec == Init /\ [][Next]_vars

----------------------------------------------------------------------------
(* run() as a function of the provider files and the ERA5 file *)

\* the reference frame that reaches the join
Era5OfRun ==
    IF variant = "compare_apis"
    THEN load_long_csv(era5_csv)
    ELSE FloorTimes(OnlyTargetVars(
             Era5AtPoint(load_long_csv_stare(era5_csv), ArgLat, ArgLon)))

\* the provider frame of a run on the given provider files, after derivation
ProvidersOfRun(files) ==
    IF variant = "compare_apis"
    THEN DerivedCompareApis(LoadProviders(files, "compare_apis"))
    ELSE DerivedStare(LoadProviders(files, "stare"))

\* merged, with its error column, of a run on the given provider files
MergedOfRun(files) ==
    IF DOMAIN files = {} \/ Raises(files) THEN <<>>
    ELSE IF variant = "compare_apis"
    THEN AddColumn(MergedCompareApis(ProvidersOfRun(files), Era5OfRun), "compare_apis")
    ELSE IF ProvidersOfRun(files) = <<>> \/ Era5OfRun = <<>> THEN <<>>
    ELSE AddColumn(MergedStare(ProvidersOfRun(files), Era5OfRun, grid_step), "stare")

\* the rows of the summary of a run on the given provider files
FullOfRun(files) ==
    IF DOMAIN files = {} \/ Raises(files) THEN {}
    ELSE IF variant = "compare_apis"
    THEN SummaryCompareApis(ProvidersOfRun(files), MergedOfRun(files))
    ELSE IF MergedOfRun(files) = <<>> THEN {}
    ELSE SummaryStare(ProvidersOfRun(files), MergedOfRun(files))

----------------------------------------------------------------------------
(* Runs into an outdir that already holds a provider file *)

\* a provider file already in outdir: written by write_long_csv, or a file
\* of another layout that has no value column
LeftFiles ==
    { write_long_csv(ArgLat, ArgLon, f) :
         f \in Feeds(FetchRows("weatherapi", "precipitation"), 1) }
    \cup { <<[time |-> t, latitude |-> ArgLat, longitude |-> ArgLon,
              variable |-> "precipitation"]>> : t \in Times }

InitOutdir ==
    /\ variant \in Variants
    /\ grid_step \in (IF variant = "stare" THEN {0, GridStepOn} ELSE {0})
    /\ \E a \in 0..MaxRows : \E c \in 0..(MaxRows - a) :
            /\ rows \in [openmeteo : Feeds(FetchRows("openmeteo", "precipitation"), a),
                         weatherapi : {<<>>}]
            /\ era5_csv \in Feeds(Era5Rows("precipitation"), c)
    /\ outdir \in {NoFile} \cup {[weatherapi |-> f] : f \in LeftFiles}
    /\ era5 = <<>>
    /\ providers_df = <<>>
    /\ merged = <<>>
    /\ full = {}
    /\ ev_df = {}
    /\ patterns = {}
    /\ pc = "fetch"
    /\ OtherIdle

SpecOutdir == InitOutdir /\ [][Next]_vars

----------------------------------------------------------------------------
(* Runs on feeds whose times are not all whole hours *)

\* the times of a feed that reports every half hour
HalfHours == {h * MinutesPerHour + m : h \in 0..MaxHour, m \in {0, 30}}

\* what fetch_weatherapi returns: the hourly forecasts, and with the
\* fetch_forecasts.py of the repository root also the reading of the current
\* time, whatever its minutes
HalfHourFetchRows(v) ==
    [time : IF v = "stare" THEN HalfHours ELSE Times,
     variable : {"precipitation"}, value : {1}]

HalfHourEra5Rows ==
    [time : HalfHours, latitude : {ArgLat}, longitude : {ArgLon},
     variable : {"precipitation"}, value : {1, 2}]

InitHalfHours ==
    /\ variant \in Variants
    /\ grid_step \in (IF variant = "stare" THEN {0, GridStepOn} ELSE {0})
    /\ \E a \in 0..MaxRows : \E c \in 0..(MaxRows - a) :
            /\ rows \in [openmeteo : {<<>>},
                         weatherapi : Feeds(HalfHourFetchRows(variant), a)]
            /\ era5_csv \in Feeds(HalfHourEra5Rows, c)
    /\ outdir = NoFile
    /\ era5 = <<>>
    /\ providers_df = <<>>
    /\ merged = <<>>
    /\ full = {}
    /\ ev_df = {}
    /\ patterns = {}
    /\ pc = "fetch"
    /\ OtherIdle

SpecHalfHours == InitHalfHours /\ [][Next]_vars

----------------------------------------------------------------------------
(* Runs on precipitation feeds, with or without one joined wind direction row *)

CompanionTime == (MaxHour + 1) * MinutesPerHour

CompanionProv ==
    <<[time |-> CompanionTime, variable |-> "wind_direction_100m", value |-> 3500]>>

CompanionRef ==
    <<[time |-> CompanionTime, latitude |-> ArgLat, longitude |-> ArgLon,
       variable |-> "wind_direction_100m", value |-> 100]>>

InitSkill ==
    /\ variant \in Variants
    /\ grid_step \in (IF variant = "stare" THEN {0, GridStepOn} ELSE {0})
    /\ \E a \in 0..MaxRows : \E b \in 0..(MaxRows - a) : \E c \in 0..(MaxRows - a - b) :
       \E om \in Feeds(FetchRows("openmeteo", "precipitation"), a) :
       \E wa \in Feeds(FetchRows("weatherapi", "precipitation"), b) :
       \E ref \in Feeds(Era5Rows("precipitation"), c) :
       \E wd \in BOOLEAN :
            /\ rows = [openmeteo |-> IF wd THEN om \o CompanionProv ELSE om,
                       weatherapi |-> wa]
            /\ era5_csv = IF wd THEN ref \o CompanionRef ELSE ref
    /\ outdir = NoFile
    /\ era5 = <<>>
    /\ providers_df = <<>>
    /\ merged = <<>>
    /\ full = {}
    /\ ev_df = {}
    /\ patterns = {}
    /\ pc = "fetch"
    /\ OtherIdle

SpecSkill == InitSkill /\ [][Next]_vars

----------------------------------------------------------------------------
(* Runs on an hourly temperature series of one provider *)

\* the series hold the hours 0..MaxSeries-1
MaxSeries == 3

SeriesHours == 0..(MaxSeries - 1)

\* the reference at hour h: absent, 10.0, or the ramp 10.0 + 2.0 * h
SeriesRef(h) ==
    {[has |-> FALSE, value |-> 0], [has |-> TRUE, value |-> 100],
     [has |-> TRUE, value |-> 100 + 20 * h]}

\* the provider at hour h: absent, 11.0, or the ramp 11.0 + 2.0 * h
SeriesProv(h) ==
    {[has |-> FALSE, value |-> 0], [has |-> TRUE, value |-> 110],
     [has |-> TRUE, value |-> 110 + 20 * h]}

\* the hours of a series that hold a value, in ascending order
HoursOf(c) == SelectSeq([i \in 1..MaxSeries |-> i - 1], LAMBDA h : c[h].has)

SeriesFetch(c) ==
    [i \in 1..Len(HoursOf(c)) |->
        [time |-> HoursOf(c)[i] * MinutesPerHour, variable |-> "temperature_2m",
         value |-> c[HoursOf(c)[i]].value]]

SeriesEra5(c) ==
    [i \in 1..Len(HoursOf(c)) |->
        [time |-> HoursOf(c)[i] * MinutesPerHour, latitude |-> ArgLat,
         longitude |-> ArgLon, variable |-> "temperature_2m",
         value |-> c[HoursOf(c)[i]].value]]

InitSeries ==
    /\ variant \in Variants
    /\ grid_step \in (IF variant = "stare" THEN {0, GridStepOn} ELSE {0})
    /\ \E pv \in [SeriesHours -> UNION {SeriesProv(h) : h \in SeriesHours}] :
       \E rv \in [SeriesHours -> UNION {SeriesRef(h) : h \in SeriesHours}] :
       \E wd \in BOOLEAN :
            /\ \A h \in SeriesHours : pv[h] \in SeriesProv(h) /\ rv[h] \in SeriesRef(h)
            /\ rows = [openmeteo |-> IF wd THEN SeriesFetch(pv) \o CompanionProv
                                     ELSE SeriesFetch(pv),
                       weatherapi |-> <<>>]
            /\ era5_csv = IF wd THEN SeriesEra5(rv) \o CompanionRef ELSE SeriesEra5(rv)
    /\ outdir = NoFile
    /\ era5 = <<>>
    /\ providers_df = <<>>
    /\ merged = <<>>
    /\ full = {}
    /\ ev_df = {}
    /\ patterns = {}
    /\ pc = "fetch"
    /\ OtherIdle

SpecSeries == InitSeries /\ [][Next]_vars

----------------------------------------------------------------------------
(* consolidated_analysis.py: the metrics of one variable of one provider *)

\* the frames hold the hours 1..MaxPoints
MaxPoints == 3

\* run_compare.py is not running
RunIdle ==
    /\ variant = "compare_apis"
    /\ grid_step = 0
    /\ rows = [p \in Providers |-> <<>>]
    /\ era5_csv = <<>>
    /\ outdir = NoFile
    /\ era5 = <<>>
    /\ providers_df = <<>>
    /\ merged = <<>>
    /\ full = {}
    /\ ev_df = {}
    /\ patterns = {}
    /\ pc = "done"

runVars == <<variant, grid_step, rows, era5_csv, outdir, era5, providers_df,
             merged, full, ev_df, patterns, pc>>

\* a cell of the variable's column: a value or not-a-number
WideCells == {[isna |-> TRUE, value |-> 0]}
                 \cup {[isna |-> FALSE, value |-> v] : v \in {100, 120}}

\* the wide frames with the variable's column: unique times in ascending
\* order (sort_values('time')), one cell per time
WideFrames ==
    { [has |-> h,
       rows |-> LET ts == SelectSeq([t \in 1..MaxPoints |-> t], LAMBDA t : t \in T)
                IN  [i \in 1..Len(ts) |->
                        [time |-> ts[i], isna |-> c[ts[i]].isna,
                         value |-> c[ts[i]].value]]]
      : h \in BOOLEAN, T \in SUBSET (1..MaxPoints),
        c \in [1..MaxPoints -> WideCells] }

\* results[var] when nothing can be compared
NoResult == [rmse |-> Sqrt(NaN), bias |-> NaN, correlation |-> NaNCorr, n |-> 0]

\* the pairs (provider value, ERA5 value) at the times both frames hold with
\* a value: common_times, dropna, common_indices
AlignedPairs(e5, prov) ==
    LET hit == SelectSeq(prov.rows, LAMBDA r :
                   /\ ~r.isna
                   /\ \E j \in 1..Len(e5.rows) :
                         e5.rows[j].time = r.time /\ ~e5.rows[j].isna)
    IN  [i \in 1..Len(hit) |->
            [pred_value |-> hit[i].value,
             era5_value |->
                 (CHOOSE e \in Range(e5.rows) : e.time = hit[i].time).value]]

\* calculate_weather_metrics for one variable
calculate_weather_metrics(e5, prov) ==
    IF ~e5.has \/ ~prov.has THEN NoResult
    ELSE LET g == AlignedPairs(e5, prov)
             n == Len(g)
         IN  IF n = 0 THEN NoResult
             ELSE [rmse |-> Sqrt(Frac(SumSeq([i \in 1..n |->
                               (g[i].era5_value - g[i].pred_value)
                                   * (g[i].era5_value - g[i].pred_value)]), n)),
                   bias |-> Frac(SumSeq([i \in 1..n |->
                               g[i].pred_value - g[i].era5_value]), n),
                   correlation |-> IF n > 1 THEN CorrCoef(g) ELSE NaNCorr,
                   n |-> n]

InitConsolidated ==
    /\ RunIdle
    /\ ArgIdle
    /\ SumIdle
    /\ OwIdle
    /\ BatchIdle
    /\ LedgerIdle
    /\ HistIdle
    /\ era5_data \in WideFrames
    /\ provider_data \in WideFrames
    /\ metrics = <<>>

CalculateWeatherMetrics ==
    /\ metrics = <<>>
    /\ metrics' = <<calculate_weather_metrics(era5_data, provider_data)>>
    /\ UNCHANGED <<era5_data, provider_data>>
    /\ UNCHANGED <<runVars, ledgerVars, histVars, batchVars, owVars, sumVars, argVars>>

NextConsolidated == CalculateWeatherMetrics

SpecConsolidated == InitConsolidated /\ [][NextConsolidated]_vars

----------------------------------------------------------------------------
(* central_weather_results.csv and its two writers *)

\* the number of runs of consolidated_analysis.py, and of summary files
MaxRuns == 2

\* f"{x:.4f}" of a coordinate given in 1e-5 degrees: its value in 1e-4 degrees
Fmt4(x) == RoundHalfEven(x, 10)

\* sorted(providers) of a list without repetitions
SortedProviders(ps) == SelectSeq(ProviderOrder, LAMBDA p : p \in Range(ps))

\* --lat, --lon of the runs (1e-5 degrees) and the (--start, --end) windows
LedgerLat == 5225000
LedgerLon == 2100000
Windows == {[start |-> 1, end |-> 2], [start |-> 1, end |-> 3]}

\* --providers: a list of provider names
ProviderLists ==
    {<<"openmeteo">>, <<"weatherapi">>, <<"openmeteo", "weatherapi">>,
     <<"weatherapi", "openmeteo">>}

\* generate_data_hash of consolidated_analysis.py: the digest of the string
\* built from the formatted coordinates, the window and the sorted provider
\* list, kept as the parts of that string
generate_data_hash(params) ==
    [lat |-> Fmt4(params.lat), lon |-> Fmt4(params.lon),
     start |-> params.start, end |-> params.end,
     providers |-> SortedProviders(params.providers)]

\* new_results of main: one row per provider that delivered data, all with
\* the hash of the run's parameters and the time of the run
NewResults(params, have, rmse, t) ==
    LET analysed == SelectSeq(params.providers, LAMBDA p : p \in have)
    IN  [i \in 1..Len(analysed) |->
            [hash |-> generate_data_hash(params), timestamp |-> t,
             lat |-> params.lat, lon |-> params.lon,
             start_time |-> params.start, end_time |-> params.end,
             provider |-> analysed[i], temperature_2m_rmse |-> rmse]]

\* existing['hash'] raises KeyError: the file was written by the migration
NoHashColumn(existing) == existing # <<>> /\ "hash" \notin DOMAIN existing[1]

\* append_results_to_central: the rows of central without those that carry a
\* hash of new_results, followed by new_results
Appended(existing, new_results) ==
    SelectSeq(existing,
              LAMBDA r : \A i \in 1..Len(new_results) : r.hash # new_results[i].hash)
    \o new_results

\* the coordinates (1e-4 degrees) and the window the migration assumes for a
\* summary file whose name carries only a time stamp
DefaultLat == 522297
DefaultLon == 210122
DefaultStart == 1
DefaultEnd == 31

\* a summary file found by the migration: the time stamp of its name and its
\* row, a temperature row of one provider
SummaryFiles ==
    [timestamp : 1..MaxRuns, provider : Providers, rmse : {10}]

\* the data_hash migrate_summary_files computes for a file
MigrateHash(f) ==
    [lat |-> DefaultLat, lon |-> DefaultLon, start |-> DefaultStart,
     end |-> DefaultEnd, providers |-> <<f.provider>>, stamp |-> f.timestamp]

\* the files the loop keeps: a file whose hash was already seen is skipped
KeptFiles(files) ==
    SelectSeq([i \in 1..Len(files) |-> [f |-> files[i], first |->
                   \A j \in 1..(i - 1) : MigrateHash(files[j]) # MigrateHash(files[i])]],
              LAMBDA e : e.first)

\* the rows migrated from the kept files, in the order of the files
all_migrated(files) ==
    [i \in 1..Len(KeptFiles(files)) |->
        LET f == KeptFiles(files)[i].f
        IN  [run_timestamp |-> f.timestamp, data_hash |-> MigrateHash(f),
             lat |-> DefaultLat, lon |-> DefaultLon,
             start_time |-> DefaultStart, end_time |-> DefaultEnd,
             provider |-> f.provider, variable |-> "temperature_2m",
             rmse |-> f.rmse]]

\* sort_values('run_timestamp', ascending=False); rows of one time stamp keep
\* their order
SortNewestFirst(df) ==
    Concat([k \in 1..(MaxRuns + 1) |->
               SelectSeq(df, LAMBDA r : r.run_timestamp = MaxRuns + 1 - k)])

InitLedger ==
    /\ RunIdle
    /\ ArgIdle
    /\ SumIdle
    /\ OwIdle
    /\ BatchIdle
    /\ ConsIdle
    /\ LedgerIdle
    /\ HistIdle

\* a run of consolidated_analysis.py up to append_results_to_central
AppendResultsToCentral ==
    /\ now < MaxRuns
    /\ now' = now + 1
    /\ \E w \in Windows : \E ps \in ProviderLists : \E rmse \in {10, 20} :
       \E have \in (SUBSET Range(ps)) \ {{}} :
          LET params == [lat |-> LedgerLat, lon |-> LedgerLon, start |-> w.start,
                         end |-> w.end, providers |-> ps]
          IN  IF NoHashColumn(central)
              THEN central' = central
              ELSE central' = Appended(central, NewResults(params, have, rmse, now'))
    /\ UNCHANGED <<runVars, consVars, histVars, batchVars, owVars, sumVars, argVars>>

\* migrate_summary_files: the central file is written anew from the rows of
\* the summary files
MigrateSummaryFiles ==
    /\ \E n \in 1..MaxRuns : \E files \in [1..n -> SummaryFiles] :
          central' = SortNewestFirst(all_migrated(files))
    /\ UNCHANGED now
    /\ UNCHANGED <<runVars, consVars, histVars, batchVars, owVars, sumVars, argVars>>

NextLedger == AppendResultsToCentral \/ MigrateSummaryFiles

SpecLedger == InitLedger /\ [][NextLedger]_vars

----------------------------------------------------------------------------
(* analyze_summaries.py: statistics and trends over the summaries of many runs *)

\* the number of summary files, each of another run time
MaxTimes == 4

SecondsPerDay == 86400

\* run_ts of the k-th summary file, in seconds after the first one: the later
\* runs follow each other second by second
RunTs(k) == IF k = 1 THEN 0 ELSE 200000 + (k - 2)

\* what a summary file holds for openmeteo: no row, a row without statistics,
\* or a row with RMSE and bias (in tenths)
HistoryCells ==
    {[has |-> FALSE, rmse |-> NaN, bias |-> NaN],
     [has |-> TRUE, rmse |-> NaN, bias |-> NaN],
     [has |-> TRUE, rmse |-> Whole(10), bias |-> Whole(-5)],
     [has |-> TRUE, rmse |-> Whole(20), bias |-> Whole(0)],
     [has |-> TRUE, rmse |-> Whole(30), bias |-> Whole(5)]}

\* the rows load_summaries takes from the k-th file
RunRows(k, cell, wa) ==
    (IF cell.has
     THEN <<[provider |-> "openmeteo", variable |-> "temperature_2m",
             run_ts |-> RunTs(k), rmse |-> cell.rmse, bias |-> cell.bias]>>
     ELSE <<>>)
    \o (IF wa
        THEN <<[provider |-> "weatherapi", variable |-> "temperature_2m",
                run_ts |-> RunTs(k), rmse |-> Whole(20), bias |-> Whole(0)]>>
        ELSE <<>>)

\* load_summaries: the files in the order of their names; the first n files
\* hold a weatherapi row
load_summaries(om, n) == Concat([k \in 1..MaxTimes |-> RunRows(k, om[k], k <= n)])

\* the numbers of a column, NaN skipped
Numbers(col) ==
    LET d == SelectSeq(col, LAMBDA q : ~q.nan)
    IN  [i \in 1..Len(d) |-> d[i].num]

MinOf(s) == CHOOSE v \in Range(s) : \A w \in Range(s) : v <= w
MaxOf(s) == CHOOSE v \in Range(s) : \A w \in Range(s) : v >= w

\* a sequence of integers in ascending order
SortedInts(s) ==
    IF s = <<>> THEN <<>>
    ELSE Concat([k \in 1..(MaxOf(s) - MinOf(s) + 1) |->
                    SelectSeq(s, LAMBDA v : v = MinOf(s) + k - 1)])

\* Series.median: NaN skipped, NaN when nothing is left
median(col) ==
    LET v == SortedInts(Numbers(col))
        n == Len(v)
    IN  IF n = 0 THEN NaN
        ELSE IF n % 2 = 1 THEN Whole(v[(n + 1) \div 2])
        ELSE Frac(v[n \div 2] + v[n \div 2 + 1], 2)

\* np.allclose(x, b) for x and b in seconds, compared as days:
\* |x - b| / 86400 <= 1e-8 + 1e-5 * |b| / 86400
allclose(x, b) ==
    \A i \in 1..Len(x) :
        Abs(x[i] - b) <= (SecondsPerDay + 1000 * Abs(b)) \div 100000000

NaNSlope == [nan |-> TRUE, cov |-> 0, var_of |-> <<>>]

\* ols_slope: the least squares slope of y over x. The slope per day is
\* 86400 * cov / (n * sum(x^2) - sum(x)^2) for x in seconds; the denominator
\* is positive and is kept as the x it is computed from. A NaN in y makes
\* every coefficient of lstsq NaN.
ols_slope(y, x) ==
    IF Len(y) < 2 \/ allclose(x, x[1]) THEN NaNSlope
    ELSE IF \E i \in 1..Len(y) : y[i].nan THEN NaNSlope
    ELSE LET n == Len(y)
             sx == SumSeq(x)
             sy == SumSeq([i \in 1..n |-> y[i].num])
             sxy == SumSeq([i \in 1..n |-> x[i] * y[i].num])
         IN  [nan |-> FALSE, cov |-> n * sxy - sx * sy, var_of |-> x]

\* the (provider, variable) groups of the frame
HistoryKeys(df) == {<<r.provider, r.variable>> : r \in Range(df)}

HistoryGroup(df, key) ==
    SelectSeq(df, LAMBDA r : r.provider = key[1] /\ r.variable = key[2])

\* t_days of a group: the time since the first run of the whole frame
t_days(df, key) ==
    LET t0 == MinOf([i \in 1..Len(df) |-> df[i].run_ts])
        d == HistoryGroup(df, key)
    IN  [i \in 1..Len(d) |-> d[i].run_ts - t0]

\* summarize_history: per group the number of runs, the medians and the
\* trends of RMSE and bias
summarize_history(df) ==
    { LET d == HistoryGroup(df, key)
          rmse == [i \in 1..Len(d) |-> d[i].rmse]
          bias == [i \in 1..Len(d) |-> d[i].bias]
      IN  [provider |-> key[1], variable |-> key[2],
           runs |-> Cardinality({r.run_ts : r \in Range(d)}),
           rmse_med |-> median(rmse), bias_med |-> median(bias),
           slope_rmse |-> ols_slope(rmse, t_days(df, key)),
           slope_bias |-> ols_slope(bias, t_days(df, key))]
      : key \in HistoryKeys(df) }

\* the label make_report gives a median bias (the report writes them in
\* Polish: zawyza = over-forecasts, zaniza = under-forecasts)
trend(bias_med) ==
    IF ~bias_med.nan /\ bias_med.num > 0 THEN "zawyza"
    ELSE IF ~bias_med.nan /\ bias_med.num < 0 THEN "zaniza"
    ELSE "~0"

\* make_report: the rows of the bias table
BiasPatterns(st) ==
    {[provider |-> r.provider, variable |-> r.variable,
      bias_med |-> r.bias_med, trend |-> trend(r.bias_med)] : r \in st}

\* main after load_summaries: at least one row was loaded
InitHistory ==
    /\ RunIdle
    /\ ArgIdle
    /\ SumIdle
    /\ OwIdle
    /\ BatchIdle
    /\ ConsIdle
    /\ LedgerIdle
    /\ \E om \in [1..MaxTimes -> HistoryCells] : \E n \in 0..MaxTimes :
          all_df = load_summaries(om, n)
    /\ all_df # <<>>
    /\ stats = {}
    /\ bias_patterns = {}
    /\ hpc = "loaded"

SummarizeHistory ==
    /\ hpc = "loaded"
    /\ stats' = summarize_history(all_df)
    /\ hpc' = "summarized"
    /\ UNCHANGED <<all_df, bias_patterns>>
    /\ UNCHANGED <<runVars, consVars, ledgerVars, batchVars, owVars, sumVars, argVars>>

MakeReport ==
    /\ hpc = "summarized"
    /\ bias_patterns' = BiasPatterns(stats)
    /\ hpc' = "reported"
    /\ UNCHANGED <<all_df, stats>>
    /\ UNCHANGED <<runVars, consVars, ledgerVars, batchVars, owVars, sumVars, argVars>>

NextHistory == SummarizeHistory \/ MakeReport

SpecHistory == InitHistory /\ [][NextHistory]_vars

----------------------------------------------------------------------------
(* batch_analyzer.py: the analyses of several locations, one process each *)

\* the number of locations of a batch
MaxLocations == 2

\* the locations, in the order of the dictionary
Locations == 1..MaxLocations

\* --lat of the analysis of a location (1e-5 degrees)
LocationLat(l) == LedgerLat + 10000 * l

\* the parameters consolidated_analysis.py gets for a location
LocationParams(l) ==
    [lat |-> LocationLat(l), lon |-> LedgerLon, start |-> 1, end |-> 2,
     providers |-> <<"openmeteo">>]

\* the status run_single_analysis returns: from the exit code, the timeout
\* of subprocess.run or an exception of it
Statuses == {"success", "error", "timeout", "exception"}

\* the locations whose analysis occupies a worker
Active == {l \in Locations : tasks[l].pc \in {"running", "loaded", "written"}}

\* a result is kept only when the analysis succeeded
CollectedOnSuccess(res, l, status) ==
    IF status = "success" THEN Append(res, [location |-> l, status |-> status]) ELSE res

\* results.append(result)
Collected(res, l, status) == Append(res, [location |-> l, status |-> status])

InitBatch ==
    /\ RunIdle
    /\ ArgIdle
    /\ SumIdle
    /\ OwIdle
    /\ ConsIdle
    /\ LedgerIdle
    /\ HistIdle
    /\ max_workers \in 1..MaxLocations
    /\ tasks = [l \in Locations |-> [pc |-> "pending", status |-> "none", existing |-> <<>>]]
    /\ results = <<>>

\* a worker takes the next submitted location (with max_workers = 1 the loop
\* takes the next location); what subprocess.run will come to is chosen here
StartAnalysis(l) ==
    /\ tasks[l].pc = "pending"
    /\ \A k \in 1..(l - 1) : tasks[k].pc # "pending"
    /\ Cardinality(Active) < max_workers
    /\ \E st \in Statuses :
          tasks' = [tasks EXCEPT ![l] = [pc |-> "running", status |-> st, existing |-> <<>>]]
    /\ UNCHANGED <<max_workers, results, central, now>>
    /\ UNCHANGED <<runVars, consVars, histVars, owVars, sumVars, argVars>>

\* the process of a location reads the central file
\* (load_or_create_central_results); a process that never started reads nothing
LoadCentral(l) ==
    /\ tasks[l].pc = "running"
    /\ tasks[l].status # "exception"
    /\ tasks' = [tasks EXCEPT ![l].pc = "loaded", ![l].existing = central]
    /\ UNCHANGED <<max_workers, results, central, now>>
    /\ UNCHANGED <<runVars, consVars, histVars, owVars, sumVars, argVars>>

\* the process writes what it read, less the rows of its hash, plus its rows
\* (the rest of append_results_to_central)
WriteCentral(l) ==
    /\ tasks[l].pc = "loaded"
    /\ now' = now + 1
    /\ central' = Appended(tasks[l].existing,
                           NewResults(LocationParams(l), {"openmeteo"}, 10, now'))
    /\ tasks' = [tasks EXCEPT ![l].pc = "written"]
    /\ UNCHANGED <<max_workers, results>>
    /\ UNCHANGED <<runVars, consVars, histVars, owVars, sumVars, argVars>>

\* run_single_analysis returns and its result is collected: a successful
\* process has written its rows, a process that timed out was killed
\* anywhere, a failed one has failed before or after its write
CollectResult(l) ==
    /\ \/ tasks[l].pc = "written"
       \/ tasks[l].pc = "running" /\ tasks[l].status # "success"
       \/ tasks[l].pc = "loaded" /\ tasks[l].status = "timeout"
    /\ results' = Collected(results, l, tasks[l].status)
    /\ tasks' = [tasks EXCEPT ![l].pc = "done"]
    /\ UNCHANGED <<max_workers, central, now>>
    /\ UNCHANGED <<runVars, consVars, histVars, owVars, sumVars, argVars>>

NextBatch ==
    \E l \in Locations :
        StartAnalysis(l) \/ LoadCentral(l) \/ WriteCentral(l) \/ CollectResult(l)

SpecBatch == InitBatch /\ [][NextBatch]_vars

----------------------------------------------------------------------------
(* fetch_forecasts.py: the historical loop of fetch_openweather *)

\* the hours of the window: the loop runs from start = 0 while current < end
MaxWindow == 2

\* the answers of requests.get: the status codes the loop tells apart (500
\* for any other error status, which raise_for_status raises on) and, for 200,
\* the body: its record under "data" or "current" or neither, and which of
\* the fields the record has (rain in tenths of a millimetre, 0 for no rain)
Responses ==
    {[status |-> st, kind |-> "none", temp |-> FALSE, wind_speed |-> FALSE, rain |-> 0] :
        st \in {401, 402, 429, 500}}
    \cup [status : {200}, kind : {"data", "current"}, temp : BOOLEAN,
          wind_speed : BOOLEAN, rain : {0, 5}]
    \cup {[status |-> 200, kind |-> "empty", temp |-> FALSE, wind_speed |-> FALSE, rain |-> 0]}

\* the rows one iteration appends for hist_data
HistRows(t, h) ==
    (IF h.temp THEN <<[time |-> t, variable |-> "temperature_2m"]>> ELSE <<>>)
    \o (IF h.wind_speed THEN <<[time |-> t, variable |-> "wind_speed_10m"]>> ELSE <<>>)
    \o <<[time |-> t, variable |-> "precipitation", value |-> h.rain]>>

InitOpenweather ==
    /\ RunIdle
    /\ ArgIdle
    /\ SumIdle
    /\ ConsIdle
    /\ LedgerIdle
    /\ HistIdle
    /\ BatchIdle
    /\ ow_current = 0
    /\ ow_rows = <<>>
    /\ ow_r = NoResponse
    /\ ow_pc = "loop"

\* while current < end: r = requests.get(...)
OwRequest ==
    /\ ow_pc = "loop"
    /\ ow_current < MaxWindow
    /\ ow_r' \in Responses
    /\ ow_pc' = "responded"
    /\ UNCHANGED <<ow_current, ow_rows>>
    /\ UNCHANGED <<runVars, consVars, ledgerVars, histVars, batchVars, sumVars, argVars>>

\* the condition of the while fails
OwEnd ==
    /\ ow_pc = "loop"
    /\ ow_current >= MaxWindow
    /\ ow_pc' = "left"
    /\ UNCHANGED <<ow_current, ow_rows, ow_r>>
    /\ UNCHANGED <<runVars, consVars, ledgerVars, histVars, batchVars, sumVars, argVars>>

\* the rest of the iteration, by the status of the answer
OwHandle ==
    /\ ow_pc = "responded"
    /\ IF ow_r.status \in {401, 402, 500}
       THEN \* break, or the exception of raise_for_status caught outside the loop
            /\ ow_pc' = "left"
            /\ UNCHANGED <<ow_current, ow_rows>>
       ELSE IF ow_r.status = 429
       THEN \* time.sleep(60); continue
            /\ ow_pc' = "loop"
            /\ UNCHANGED <<ow_current, ow_rows>>
       ELSE IF ow_r.kind = "empty"
       THEN \* current += timedelta(hours=1); continue
            /\ ow_pc' = "loop"
            /\ ow_current' = ow_current + 1
            /\ UNCHANGED ow_rows
       ELSE /\ ow_pc' = "loop"
            /\ ow_rows' = ow_rows \o HistRows(ow_current, ow_r)
            /\ ow_current' = ow_current + 1
    /\ UNCHANGED ow_r
    /\ UNCHANGED <<runVars, consVars, ledgerVars, histVars, batchVars, sumVars, argVars>>

NextOpenweather == OwRequest \/ OwEnd \/ OwHandle

SpecOpenweather == InitOpenweather /\ [][NextOpenweather]_vars

\* the loop is not held up from outside: a pending step of it is taken
FairOpenweather == SpecOpenweather /\ WF_vars(NextOpenweather)

----------------------------------------------------------------------------
(* era5_comparison_summary.csv: from run_compare to analyze_summaries.  The
   headers are spelled in ASCII: every Polish letter is replaced by its base
   letter and the minus sign by a hyphen, the same way in the headers written
   and in COLMAP, which keeps equal headers equal and different ones
   different *)

\* a text cell
Text(str) == [nan |-> FALSE, text |-> str]

\* the columns of the metric table, by the names of the summary: n is
\* n_overlap (compare_apis) or n_era5 (stare), n_provider is n_api in stare,
\* bias is bias_mean
SummaryColumns ==
    {"provider", "variable", "n_provider", "n", "coverage_pct", "derived_pct",
     "bias", "mae", "rmse", "corr", "over_pct", "under_pct"}

\* compare_apis: rename_cols, the header of each column
rename_cols ==
    [provider     |-> "provider",
     variable     |-> "variable",
     n_provider   |-> "n_provider (l pkt API)",
     n            |-> "n (l dopasowan z ERA5)",
     coverage_pct |-> "coverage_pct (% pokrycia ERA5)",
     derived_n    |-> "derived_n (ile wartosci dorobiono z 10 m)",
     derived_pct  |-> "derived_pct (% dorobionych wartosci)",
     bias         |-> "bias_mean (blad sredni: pred - ERA5)",
     mae          |-> "mae (sredni blad bezwzgledny)",
     rmse         |-> "rmse (pierwiastek sredniego bledu kwadratowego)",
     corr         |-> "corr (korelacja P)",
     over_pct     |-> "over_pct (% zawyzenia)",
     under_pct    |-> "under_pct (% zanizenia)"]

\* stare: rename_cols, the short headers
rename_cols_stare ==
    [provider     |-> "provider (API)",
     variable     |-> "zmienna",
     n_provider   |-> "n_api",
     n            |-> "n_era5",
     coverage_pct |-> "pokrycie%",
     derived_pct  |-> "dorobione%",
     bias         |-> "bias",
     mae          |-> "MAE",
     rmse         |-> "RMSE",
     corr         |-> "corr",
     over_pct     |-> "%zawyz",
     under_pct    |-> "%zaniz"]

\* full.rename(columns=renames).to_csv: the row by header
Renamed(row, renames) ==
    [h \in {renames[c] : c \in DOMAIN row} |->
        row[CHOOSE c \in DOMAIN row : renames[c] = h]]

\* analyze_summaries: the headers accepted for each canonical column
COLMAP ==
    [provider     |-> <<"provider (API)", "provider (dostawca)", "provider">>,
     variable     |-> <<"zmienna", "variable (zmienna)", "variable">>,
     n_provider   |-> <<"n_api", "n_provider (liczba punktow API)", "n_provider">>,
     n_era5       |-> <<"n_era5", "n (liczba dopasowan z ERA5)", "n">>,
     coverage_pct |-> <<"pokrycie%", "coverage_pct (% pokrycia z ERA5)", "coverage_pct">>,
     derived_pct  |-> <<"dorobione%", "derived_pct (% dorobionych wartosci)", "derived_pct">>,
     bias         |-> <<"bias", "bias_mean (blad sredni: pred - ERA5)", "bias_mean">>,
     mae          |-> <<"MAE", "mae", "mae (sredni blad bezwzgledny)">>,
     rmse         |-> <<"RMSE", "rmse", "rmse (pierwiastek sredniego bledu kwadratowego)">>,
     corr         |-> <<"corr", "corr (korelacja Pearsona)">>,
     over_pct     |-> <<"%zawyz", "over_pct", "over_pct (% przypadkow z zawyzeniem)">>,
     under_pct    |-> <<"%zaniz", "under_pct", "under_pct (% przypadkow z zanizeniem)">>]

\* find_column: the first candidate that is a header of df, "" for None
find_column(df, candidates) ==
    LET found == {i \in 1..Len(candidates) : candidates[i] \in DOMAIN df}
    IN  IF found = {} THEN ""
        ELSE candidates[CHOOSE i \in found : \A j \in found : i <= j]

\* normalize_columns: each canonical column from the header found for it, a
\* column of not-a-number when none is found
normalize_columns(df) ==
    [canon \in DOMAIN COLMAP |->
        IF find_column(df, COLMAP[canon]) # ""
        THEN df[find_column(df, COLMAP[canon])]
        ELSE NaN]

\* the metric rows a run can be about to write
SummaryRows ==
    [provider : {Text("openmeteo"), Text("weatherapi")},
     variable : {Text("temperature_2m"), Text("precipitation")},
     n_provider : {Whole(1), Whole(2)},
     n : {Whole(1)},
     coverage_pct : {Whole(50), Whole(100)},
     derived_pct : {Whole(0)},
     bias : {Whole(-5), Whole(5)},
     mae : {Whole(5)},
     rmse : {Whole(5)},
     corr : {NaN, Whole(1)},
     over_pct : {Whole(0), Whole(100)},
     under_pct : {Whole(0)}]

InitSummary ==
    /\ RunIdle
    /\ ArgIdle
    /\ ConsIdle
    /\ LedgerIdle
    /\ HistIdle
    /\ BatchIdle
    /\ OwIdle
    /\ summary_full \in SummaryRows
    /\ summary_csv = <<>>
    /\ summary_out = <<>>
    /\ summary_pc = "metrics"

\* compare_apis run_compare writes the summary; derived_n is written too
WriteSummaryCompareApis ==
    /\ summary_pc = "metrics"
    /\ summary_csv' = Renamed([c \in SummaryColumns \cup {"derived_n"} |->
                                  IF c = "derived_n" THEN Whole(0) ELSE summary_full[c]],
                              rename_cols)
    /\ summary_pc' = "compare_apis"
    /\ UNCHANGED <<summary_full, summary_out>>
    /\ UNCHANGED <<runVars, consVars, ledgerVars, histVars, batchVars, owVars, argVars>>

\* stare run_compare writes the summary
WriteSummaryStare ==
    /\ summary_pc = "metrics"
    /\ summary_csv' = Renamed(summary_full, rename_cols_stare)
    /\ summary_pc' = "stare"
    /\ UNCHANGED <<summary_full, summary_out>>
    /\ UNCHANGED <<runVars, consVars, ledgerVars, histVars, batchVars, owVars, argVars>>

\* load_summaries reads the file and normalises its columns
NormalizeColumns ==
    /\ summary_pc \in {"compare_apis", "stare"}
    /\ summary_out' = normalize_columns(summary_csv)
    /\ summary_pc' = "normalized"
    /\ UNCHANGED <<summary_full, summary_csv>>
    /\ UNCHANGED <<runVars, consVars, ledgerVars, histVars, batchVars, owVars, argVars>>

NextSummary == WriteSummaryCompareApis \/ WriteSummaryStare \/ NormalizeColumns

SpecSummary == InitSummary /\ [][NextSummary]_vars

----------------------------------------------------------------------------
(* The command line of consolidated_analysis.py, built by
   run_weather_analysis.run_analysis and batch_analyzer.run_single_analysis.
   Only the options are kept, each followed in the code by its value *)

\* the options parser.add_argument defines in main of consolidated_analysis.py
ParserOptions ==
    {"--lat", "--lon", "--start", "--end", "--providers", "--location-name",
     "--analysis-type"}

\* those of them with required=True
RequiredOptions == {"--lat", "--lon", "--start", "--end", "--providers"}

\* the options for the API keys, in the order both callers add them
KeyOptions == <<"--openweather-key", "--weatherapi-key", "--visualcrossing-key">>

\* the part of cmd for the keys that were given
KeyArgs(keys) == SelectSeq(KeyOptions, LAMBDA o : o \in keys)

\* an option is known to the parser: defined, or an unambiguous abbreviation
\* of a defined one; none of the options passed abbreviates a defined one
Recognised(o) == o \in ParserOptions

\* parser.parse_args(): exit code 2 on an unrecognised option or a missing
\* required one
parse_args(argv) ==
    IF /\ \A i \in 1..Len(argv) : Recognised(argv[i])
       /\ \A o \in RequiredOptions : \E i \in 1..Len(argv) : argv[i] = o
    THEN 0 ELSE 2

\* what a caller is given: the keys present, --use-cds and whether
\* make_era5_cds.py succeeded (batch_analyzer only)
Calls ==
    [caller : {"run_analysis", "run_single_analysis"},
     keys : SUBSET Range(KeyOptions),
     use_cds : BOOLEAN,
     era5_made : BOOLEAN]

InitArgs ==
    /\ RunIdle
    /\ ConsIdle
    /\ LedgerIdle
    /\ HistIdle
    /\ BatchIdle
    /\ OwIdle
    /\ SumIdle
    /\ arg_call \in Calls
    /\ cmd = <<>>
    /\ returncode = 0
    /\ arg_pc = "called"

\* run_weather_analysis.run_analysis builds cmd
BuildRunAnalysis ==
    /\ arg_pc = "called"
    /\ arg_call.caller = "run_analysis"
    /\ cmd' = <<"--lat", "--lon", "--start", "--end", "--providers", "--era5">>
              \o KeyArgs(arg_call.keys)
    /\ arg_pc' = "built"
    /\ UNCHANGED <<arg_call, returncode>>
    /\ UNCHANGED <<runVars, consVars, ledgerVars, histVars, batchVars, owVars, sumVars>>

\* batch_analyzer.run_single_analysis builds cmd
BuildRunSingleAnalysis ==
    /\ arg_pc = "called"
    /\ arg_call.caller = "run_single_analysis"
    /\ cmd' = <<"--lat", "--lon", "--start", "--end", "--providers">>
              \o KeyArgs(arg_call.keys)
              \o (IF arg_call.use_cds /\ arg_call.era5_made THEN <<"--era5">> ELSE <<>>)
    /\ arg_pc' = "built"
    /\ UNCHANGED <<arg_call, returncode>>
    /\ UNCHANGED <<runVars, consVars, ledgerVars, histVars, batchVars, owVars, sumVars>>

\* subprocess.run(cmd): consolidated_analysis.py parses its arguments and,
\* when they are accepted, runs the analysis, which succeeds or fails
RunConsolidated ==
    /\ arg_pc = "built"
    /\ IF parse_args(cmd) # 0
       THEN returncode' = parse_args(cmd)
       ELSE returncode' \in {0, 1}
    /\ arg_pc' = "returned"
    /\ UNCHANGED <<arg_call, cmd>>
    /\ UNCHANGED <<runVars, consVars, ledgerVars, histVars, batchVars, owVars, sumVars>>

NextArgs == BuildRunAnalysis \/ BuildRunSingleAnalysis \/ RunConsolidated

SpecArgs == InitArgs /\ [][NextArgs]_vars

----------------------------------------------------------------------------
(* Properties *)

AfterDerive == {"merge", "metrics", "analysis", "done", "raised"}
AfterMetrics == {"analysis", "done", "raised"}
Finished == pc \in {"done", "raised"}

\* the records a source reported: the rows of its provider file
NativeRows(p) == IF p \in DOMAIN outdir THEN outdir[p] ELSE <<>>

SamePlaceTime(a, b) ==
    a.time = b.time /\ a.latitude = b.latitude /\ a.longitude = b.longitude

\* a row reduced to the five fields of an observation record
Observation(r) ==
    [time |-> r.time, latitude |-> r.latitude, longitude |-> r.longitude,
     variable |-> r.variable, value |-> r.value]

Observations(df) == [i \in 1..Len(df) |-> Observation(df[i])]

WindPairs == {<<"wind_speed_10m", "wind_speed_100m">>,
              <<"wind_direction_10m", "wind_direction_100m">>}
Wind100 == {"wind_speed_100m", "wind_direction_100m"}
Wind10 == {"wind_speed_10m", "wind_direction_10m"}

\* the rows of df of provider p and variable v at the place and time of n
RowsAt(df, p, v, n) ==
    SelectSeq(df, LAMBDA r : r.provider = p /\ r.variable = v /\ SamePlaceTime(r, n))

NativeAt(p, v, n) ==
    SelectSeq(NativeRows(p), LAMBDA r : r.variable = v /\ SamePlaceTime(r, n))

\* C1: every joined row of a directional variable carries the circular error
\* ((predicted - reference + 180) mod 360) - 180, a value in [-180, 180), and
\* the bias of the metric table is the mean of these circular errors.
C1_DirectionalErrorIsCircular ==
    pc \in AfterMetrics =>
        /\ \A i \in 1..Len(merged) :
              merged[i].variable \in DirectionVars =>
                  /\ merged[i].error =
                        ((merged[i].pred_value - merged[i].era5_value + HalfCircle)
                            % FullCircle) - HalfCircle
                  /\ -HalfCircle <= merged[i].error
                  /\ merged[i].error < HalfCircle
        /\ \A f \in full :
              (f.variable \in DirectionVars /\ ~IsNaN(f.bias_mean)) =>
                  LET g == GroupRows(merged, f.provider, f.variable)
                  IN  f.bias_mean =
                        Frac(SumSeq([i \in 1..Len(g) |-> ((g[i].pred_value - g[i].era5_value + HalfCircle) % FullCircle) - HalfCircle]),
                             Len(g))

\* C2: at a key where a source reports a 100 m wind variable natively, the
\* frame after derivation holds exactly the native records of that key (none
\* added, no value changed), and a group whose keys are all native has
\* derived_pct = 0.
C2_NativeWins ==
    pc \in AfterDerive =>
        /\ \A p \in Providers : \A v \in Wind100 :
              \A i \in 1..Len(NativeRows(p)) :
                  NativeRows(p)[i].variable = v =>
                      Observations(RowsAt(providers_df, p, v, NativeRows(p)[i]))
                          = NativeAt(p, v, NativeRows(p)[i])
        /\ \A f \in full :
              (/\ f.variable \in Wind100
               /\ \A r \in Range(GroupRows(providers_df, f.provider, f.variable)) :
                      NativeAt(f.provider, f.variable, r) # <<>>)
                  => f.derived_pct = Whole(0)

\* a source reports 10 m and native 100 m wind speed at one key, and its
\* wind_speed_100m row of the compare_apis summary has derived_pct = 0
C2_Witness ==
    /\ Finished
    /\ variant = "compare_apis"
    /\ \E i, j \in 1..Len(NativeRows("openmeteo")) :
          /\ NativeRows("openmeteo")[i].variable = "wind_speed_10m"
          /\ NativeRows("openmeteo")[j].variable = "wind_speed_100m"
          /\ SamePlaceTime(NativeRows("openmeteo")[i], NativeRows("openmeteo")[j])
    /\ \E f \in full :
          /\ f.provider = "openmeteo"
          /\ f.variable = "wind_speed_100m"
          /\ f.derived_pct = Whole(0)
          /\ f.n_overlap = Whole(1)

\* C3: at every key where a source reports 10 m wind but no native 100 m
\* value, the frame after derivation holds exactly one 100 m record for that
\* key, the direction copied unchanged from 10 m.
C3_DerivedWhereverMissing ==
    pc \in AfterDerive =>
        \A p \in Providers : \A w \in WindPairs :
            \A i \in 1..Len(NativeRows(p)) :
                LET n == NativeRows(p)[i]
                    d == RowsAt(providers_df, p, w[2], n)
                IN  (n.variable = w[1] /\ NativeAt(p, w[2], n) = <<>>) =>
                        /\ Len(d) = 1
                        /\ w[1] = "wind_direction_10m" => d[1].value = n.value

\* the provider files of a run in which only p was fetched
OnlyFile(p) == [q \in {p} \cap DOMAIN outdir |-> outdir[q]]

WindRows100(df, p) ==
    SelectSeq(df, LAMBDA r : r.provider = p /\ r.variable \in Wind100)

\* C4: the 100 m records of a source after derivation are those of a run in
\* which it is the only source, whatever the other sources report, and a
\* source without 10 m and 100 m wind records has no 100 m record.
C4_DerivationPerSource ==
    pc \in AfterDerive =>
        \A p \in Providers :
            /\ WindRows100(providers_df, p) = WindRows100(ProvidersOfRun(OnlyFile(p)), p)
            /\ (\A r \in Range(NativeRows(p)) : r.variable \notin Wind100 \cup Wind10)
                   => WindRows100(providers_df, p) = <<>>

\* weatherapi reports 10 m wind speed at a key where openmeteo reports native
\* 100 m wind speed, and weatherapi has its own derived record there
C4_Witness ==
    /\ pc \in AfterDerive
    /\ \E i \in 1..Len(NativeRows("weatherapi")) :
       \E j \in 1..Len(NativeRows("openmeteo")) :
          /\ NativeRows("weatherapi")[i].variable = "wind_speed_10m"
          /\ NativeRows("openmeteo")[j].variable = "wind_speed_100m"
          /\ SamePlaceTime(NativeRows("weatherapi")[i], NativeRows("openmeteo")[j])
          /\ Len(RowsAt(providers_df, "weatherapi", "wind_speed_100m",
                        NativeRows("weatherapi")[i])) = 1

\* q is n/d within the half unit of the second decimal place
Approx(q, n, d) ==
    /\ ~q.nan
    /\ 200 * (q.num * d - n * q.den) <= q.den * d
    /\ 200 * (n * q.den - q.num * d) <= q.den * d

\* the reference frame holds a record for the key of r (the snapped key in
\* grid-snap mode)
HasReference(r) ==
    \E e \in Range(OnlyTargetVars(era5)) :
        SameJoinKey(r, e, grid_step)

\* C5: in every row of the metric table, 0 <= coverage_pct <= 100,
\* coverage_pct = 100 * joined_count / native_count (to the two decimals
\* written), where joined_count is the number of the group's records with a
\* reference record for their key, and coverage_pct = 100 when every record of
\* the group has one; also with several reference records for one key.
C5_CoverageBounded ==
    \A f \in full :
        LET g == GroupRows(providers_df, f.provider, f.variable)
            joined_count == Len(SelectSeq(g, HasReference))
        IN  /\ Within(f.coverage_pct, 0, 100)
            /\ IF Len(g) = 0 THEN f.coverage_pct = Whole(0)
               ELSE Approx(f.coverage_pct, 100 * joined_count, Len(g))
            /\ (Len(g) > 0 /\ joined_count = Len(g)) => f.coverage_pct = Whole(100)

AllStatisticsNaN(f) ==
    /\ IsNaN(f.bias_mean)
    /\ IsNaN(f.mae)
    /\ IsNaN(f.rmse.radicand)
    /\ f.corr.nan
    /\ IsNaN(f.over_pct)
    /\ IsNaN(f.under_pct)

\* no record of the sources after derivation has the (time, latitude,
\* longitude, variable) key of a record of the reference file
NoSharedKey ==
    \A r \in Range(providers_df) : \A e \in Range(era5_csv) : ~ExactKey(r, e)

\* C6: when the source records and the reference records share no key, the
\* run finishes without raising and the metric table holds exactly one row per
\* (source, variable), with n_joined = 0 and every statistic not-a-number.
C6_EmptyJoinRow ==
    (Finished /\ DOMAIN outdir # {} /\ NoSharedKey) =>
        /\ pc = "done"
        /\ \A k \in GroupKeys(providers_df) :
              \E f \in full :
                  /\ f.provider = k[1]
                  /\ f.variable = k[2]
                  /\ f.n_overlap = Whole(0)
                  /\ AllStatisticsNaN(f)
                  /\ \A h \in full :
                        (h.provider = k[1] /\ h.variable = k[2]) => h = f

\* C7: the joined rows and the rows of the metric table of a source are those
\* of a run in which it is the only source, against the same reference file.
C7_SourceAloneOrTogether ==
    Finished =>
        \A p \in DOMAIN outdir :
            /\ SelectSeq(merged, LAMBDA r : r.provider = p) = MergedOfRun(OnlyFile(p))
            /\ {f \in full : f.provider = p} = FullOfRun(OnlyFile(p))

\* C8: for every source and (time, latitude, longitude, variable) key, at most
\* one record reaches the join, and where the source reports the key it is the
\* first record of the key in the source's file; the run is not aborted.
C8_FirstWins ==
    pc \in AfterDerive =>
        \A p \in Providers : \A i \in 1..Len(providers_df) :
            LET r == providers_df[i]
                same == RowsAt(providers_df, p, r.variable, r)
                native == NativeAt(p, r.variable, r)
            IN  r.provider = p =>
                    /\ Len(same) = 1
                    /\ native # <<>> => r.value = native[1].value

\* the records of a group that the derivation created: those of the group
\* beyond the records of that variable in the source's file
CreatedCount(p, v) ==
    Len(GroupRows(providers_df, p, v))
        - Len(SelectSeq(NativeRows(p), LAMBDA r : r.variable = v))

\* C9: in every row of the metric table, derived_pct = 100 * derived_count /
\* native_count (to the two decimals written), derived_count the records of
\* the group created by the derivation and native_count the records of the
\* group after derivation; derived_count <= native_count, and derived_pct > 0
\* whenever the derivation created a record of the group.
C9_DerivedShare ==
    \A f \in full :
        LET native_count == Len(GroupRows(providers_df, f.provider, f.variable))
            derived_count == CreatedCount(f.provider, f.variable)
        IN  /\ derived_count <= native_count
            /\ native_count > 0 => Approx(f.derived_pct, 100 * derived_count, native_count)
            /\ derived_count > 0 => (~IsNaN(f.derived_pct) /\ f.derived_pct.num > 0)

\* the skill of n over d: not-a-number exactly when d = 0, else in [0, 1]
SkillIs(q, n, d) ==
    IF d = 0 THEN IsNaN(q)
    ELSE q = Frac(n, d) /\ Within(q, 0, 1)

\* C10: for each source with joined precipitation rows, with an event being a
\* value strictly above the threshold, TP, FP and FN count the rows with
\* (event, event), (event, non-event) and (non-event, event); TP + FP + FN <=
\* n_joined; POD = TP/(TP+FN), FAR = FP/(TP+FP), CSI = TP/(TP+FP+FN), each
\* not-a-number exactly when its denominator is 0 and otherwise in [0, 1].
C10_EventSkill ==
    (pc = "done" /\ merged # <<>>) =>
        \A p \in Providers :
            LET g  == GroupRows(merged, p, "precipitation")
                TP == Len(SelectSeq(g, LAMBDA r : r.pred_value > PrecipThresh /\ r.era5_value > PrecipThresh))
                FP == Len(SelectSeq(g, LAMBDA r : r.pred_value > PrecipThresh /\ r.era5_value <= PrecipThresh))
                FN == Len(SelectSeq(g, LAMBDA r : r.pred_value <= PrecipThresh /\ r.era5_value > PrecipThresh))
                e  == {x \in ev_df : x.provider = p}
            IN  IF g = <<>> THEN e = {}
                ELSE /\ Cardinality(e) = 1
                     /\ TP + FP + FN <= Len(g)
                     /\ \A x \in e :
                           /\ SkillIs(x.POD, TP, TP + FN)
                           /\ SkillIs(x.FAR, FP, TP + FP)
                           /\ SkillIs(x.CSI, TP, TP + FP + FN)

\* a compare_apis run went through the analysis with a joined precipitation
\* row predicted exactly at the threshold and observed above it: a miss, so
\* POD = 0 and FAR is not-a-number
C10_Witness ==
    /\ pc = "done"
    /\ variant = "compare_apis"
    /\ \E i \in 1..Len(merged) :
          /\ merged[i].variable = "precipitation"
          /\ merged[i].pred_value = PrecipThresh
          /\ merged[i].era5_value > PrecipThresh
    /\ \E x \in ev_df : x.POD = Whole(0) /\ IsNaN(x.FAR) /\ x.CSI = Whole(0)

\* C11: the correlation reported for a group with fewer than 3 joined points
\* is not-a-number, in the summary of run_compare.py and in the result of
\* consolidated_analysis.py's calculate_weather_metrics.
C11_CorrelationNeedsThreePoints ==
    /\ \A f \in full :
          Len(GroupRows(merged, f.provider, f.variable)) < 3 => f.corr.nan
    /\ \A i \in 1..Len(metrics) :
          metrics[i].n < 3 => metrics[i].correlation.nan

\* the reference values of the joined rows g are all equal
ConstantReference(g) ==
    \A i, j \in 1..Len(g) : g[i].era5_value = g[j].era5_value

\* C12: the linear fit of a group reports slope, intercept and R2 all as
\* not-a-number whenever the group has fewer than 3 joined points, and
\* whenever all its reference values are equal.
C12_DegenerateFitIsNaN ==
    \A x \in patterns :
        LET g == GroupRows(merged, x.provider, x.variable)
        IN  (Len(g) < 3 \/ ConstantReference(g)) =>
                IsNaN(x.slope) /\ IsNaN(x.intercept) /\ x.R2.nan

\* the reference records of the file with the key of the source record r
RefAt(r) == SelectSeq(era5_csv, LAMBDA e : ExactKey(r, e))

\* the records of the group (p, v) are at least 3, each has exactly one
\* reference record for its key and exceeds it by the same c, and the
\* reference values are not all equal
OffsetGroup(p, v, c) ==
    LET src == GroupRows(providers_df, p, v)
    IN  /\ Len(src) >= 3
        /\ \A i \in 1..Len(src) :
              /\ Len(RefAt(src[i])) = 1
              /\ src[i].value = RefAt(src[i])[1].value + c
              /\ \A j \in 1..Len(src) : SamePlaceTime(src[i], src[j]) => i = j
        /\ \E i, j \in 1..Len(src) :
              RefAt(src[i])[1].value # RefAt(src[j])[1].value

\* the offsets between a record of the group and a reference record
Offsets(p, v) ==
    {r.value - e.value : r \in Range(GroupRows(providers_df, p, v)),
                         e \in Range(era5_csv)}

\* C14: when the file of one source lacks a required column, every source
\* with a well-formed file is still joined as it is when it runs alone, and
\* has a row in the summary when it has a joined row
C14_MalformedFeedIsIsolated ==
    (pc \in {"done", "raised"} /\ Raises(outdir)) =>
        \A p \in DOMAIN outdir :
            ~MissingColumn(outdir[p]) =>
                /\ SelectSeq(merged, LAMBDA m : m.provider = p) = MergedOfRun(OnlyFile(p))
                /\ (MergedOfRun(OnlyFile(p)) # <<>> => \E f \in full : f.provider = p)

\* C13: for a non-directional variable, when the source's value is the
\* reference value plus the same c > 0 at every key, over at least 3 keys with
\* non-constant reference, the group's row of the metric table has n_joined =
\* number of keys, bias = MAE = RMSE = c, correlation = 1, over_pct = 100 and
\* under_pct = 0.
C13_ConstantOffset ==
    pc \in AfterMetrics =>
        \A p \in Providers : \A v \in TARGET_VARS \ DirectionVars :
            \A c \in Offsets(p, v) :
                (c > 0 /\ OffsetGroup(p, v, c)) =>
                    \E f \in full :
                        /\ f.provider = p
                        /\ f.variable = v
                        /\ f.n_overlap = Whole(Len(GroupRows(providers_df, p, v)))
                        /\ f.bias_mean = Whole(c)
                        /\ f.mae = Whole(c)
                        /\ f.rmse = Sqrt(Whole(c * c))
                        /\ ~f.corr.nan
                        /\ f.corr.cov > 0
                        /\ f.corr.cov = f.corr.var_pred
                        /\ f.corr.cov = f.corr.var_era5
                        /\ f.over_pct = Whole(100)
                        /\ f.under_pct = Whole(0)

\* the metric table is written for a temperature series 11.0, 13.0, 15.0
\* against the reference 10.0, 12.0, 14.0 at the same three keys
C13_Witness ==
    /\ pc \in AfterMetrics
    /\ OffsetGroup("openmeteo", "temperature_2m", 10)
    /\ {e.value : e \in {x \in Range(era5_csv) : x.variable = "temperature_2m"}}
          = {100, 120, 140}
    /\ \E f \in full : f.variable = "temperature_2m" /\ f.bias_mean = Whole(10)

\* C15: a row once written to the central file is never removed or modified:
\* every row of the file is still in the file after any ingestion or migration
C15_LedgerOnlyGrows ==
    [][\A i \in 1..Len(central) : \E j \in 1..Len(central') : central'[j] = central[i]]_vars

\* the content key of a row of the central file written by an ingestion
ContentKey(r) ==
    [provider |-> r.provider, lat |-> r.lat, lon |-> r.lon,
     start_time |-> r.start_time, end_time |-> r.end_time]

\* the rows ingestion wrote
Ingested == SelectSeq(central, LAMBDA r : "hash" \in DOMAIN r)

\* C16: the central file holds at most one ingested row per content key
C16_OneRowPerContentKey ==
    \A i, j \in 1..Len(Ingested) :
        ContentKey(Ingested[i]) = ContentKey(Ingested[j]) => i = j

\* the rows of a group of the history frame have at least two run times and
\* each of them has a defined value of the metric
TwoRunsDefined(key, metric) ==
    LET d == HistoryGroup(all_df, key)
    IN  /\ Cardinality({r.run_ts : r \in Range(d)}) >= 2
        /\ \A i \in 1..Len(d) : ~d[i][metric].nan

\* C17: the trend slope of RMSE and of bias is NaN for a group with fewer
\* than two distinct run times, and a number for a group with at least two
\* distinct run times whose metric values are all defined
C17_SlopeDefinedFromTwoRuns ==
    hpc # "loaded" =>
        \A r \in stats :
            /\ r.runs < 2 => (r.slope_rmse.nan /\ r.slope_bias.nan)
            /\ TwoRunsDefined(<<r.provider, r.variable>>, "rmse") => ~r.slope_rmse.nan
            /\ TwoRunsDefined(<<r.provider, r.variable>>, "bias") => ~r.slope_bias.nan

\* the group has at least three rows, at pairwise distinct run times, and its
\* RMSE rises (dir = 1) or falls (dir = -1) strictly from each row to the next
MonotoneRmse(key, dir) ==
    LET d == HistoryGroup(all_df, key)
    IN  /\ Len(d) >= 3
        /\ \A i, j \in 1..Len(d) : i < j => d[i].run_ts < d[j].run_ts
        /\ \A i \in 1..Len(d) : ~d[i].rmse.nan
        /\ \A i \in 1..(Len(d) - 1) : dir * d[i].rmse.num < dir * d[i + 1].rmse.num

\* C18: a group of at least three rows with distinct run times and strictly
\* increasing RMSE has a strictly positive slope_rmse, one with strictly
\* decreasing RMSE a strictly negative one, whatever the other groups are
C18_SlopeSign ==
    hpc # "loaded" =>
        \A r \in stats :
            /\ MonotoneRmse(<<r.provider, r.variable>>, 1) =>
                   (~r.slope_rmse.nan /\ r.slope_rmse.cov > 0)
            /\ MonotoneRmse(<<r.provider, r.variable>>, -1) =>
                   (~r.slope_rmse.nan /\ r.slope_rmse.cov < 0)

\* C19: the bias label is over-forecasts exactly when the median bias is
\* above zero, under-forecasts exactly when it is below zero, and neutral
\* only when it is exactly zero, so never for an undefined median
C19_BiasLabel ==
    hpc = "reported" =>
        \A r \in bias_patterns :
            /\ r.trend = "zawyza" <=> (~r.bias_med.nan /\ r.bias_med.num > 0)
            /\ r.trend = "zaniza" <=> (~r.bias_med.nan /\ r.bias_med.num < 0)
            /\ r.trend = "~0" => (~r.bias_med.nan /\ r.bias_med.num = 0)

WholeHour(t) == t % MinutesPerHour = 0

\* C20: every provider row and every ERA5 row that goes into the join, and so
\* every joined row, has a time that is a whole hour
C20_JoinTimesAreWholeHours ==
    /\ pc = "merge" =>
          /\ \A i \in 1..Len(providers_df) : WholeHour(providers_df[i].time)
          /\ \A i \in 1..Len(era5) : WholeHour(era5[i].time)
    /\ \A i \in 1..Len(merged) : WholeHour(merged[i].time)

\* the reference records of the feed, as the program reads them
ReferenceFeed ==
    IF variant = "stare" THEN load_long_csv_stare(era5_csv) ELSE load_long_csv(era5_csv)

\* C21: the joined rows are the pairs of a source record and a reference
\* record of the feed with equal time and variable whose coordinates snap to
\* the same multiples of the grid step, or are equal when the step is off
C21_JoinOnSnappedCoordinates ==
    pc \in AfterMetrics =>
        merged = AddColumn(InnerMerge(providers_df, ReferenceFeed, grid_step), variant)

\* C22: in a run with joined rows, the metric table has exactly one row for
\* every (source, variable) group of the records after derivation, and the row
\* of a group without a joined row has n_joined = 0, coverage_pct = 0 and
\* every statistic not-a-number
C22_RowForEveryGroup ==
    (pc \in AfterMetrics /\ merged # <<>>) =>
        \A k \in GroupKeys(providers_df) :
            \E f \in full :
                /\ f.provider = k[1]
                /\ f.variable = k[2]
                /\ \A h \in full : (h.provider = k[1] /\ h.variable = k[2]) => h = f
                /\ GroupRows(merged, k[1], k[2]) = <<>> =>
                      /\ f.n_overlap = Whole(0)
                      /\ f.coverage_pct = Whole(0)
                      /\ AllStatisticsNaN(f)

\* the rows of a group of the history frame whose metric is defined, with
\* their times since the first run of the frame
DefinedRuns(key, metric) ==
    LET d == HistoryGroup(all_df, key)
        t == t_days(all_df, key)
        keep == SelectSeq([i \in 1..Len(d) |-> i], LAMBDA i : ~d[i][metric].nan)
    IN  [y |-> [j \in 1..Len(keep) |-> d[keep[j]][metric]],
         x |-> [j \in 1..Len(keep) |-> t[keep[j]]]]

\* C23: for every group the analysis comes to its statistics, and the trend
\* slopes of RMSE and of bias are those of the runs whose value is defined:
\* the rows with a not-a-number value are left out of the fit
C23_UndefinedValuesIgnored ==
    hpc # "loaded" =>
        \A r \in stats :
            LET key == <<r.provider, r.variable>>
            IN  /\ r.slope_rmse = ols_slope(DefinedRuns(key, "rmse").y, DefinedRuns(key, "rmse").x)
                /\ r.slope_bias = ols_slope(DefinedRuns(key, "bias").y, DefinedRuns(key, "bias").x)

\* C24: every row of the metric table belongs to a provider whose fetch
\* returned rows in this run, whatever files outdir held before the run
C24_OnlyProvidersOfThisRun ==
    \A f \in full : rows[f.provider] # <<>>

\* run_batch_analysis has returned
BatchDone == tasks # <<>> /\ \A l \in Locations : tasks[l].pc = "done"

\* C25: when the analyses run in parallel and each of them completes with
\* success, the central file finally holds the rows of every location
C25_NoLostRows ==
    (BatchDone /\ \A l \in Locations : tasks[l].status = "success") =>
        \A l \in Locations : \E i \in 1..Len(central) : central[i].lat = LocationLat(l)

C27_IngestionAfterMigration ==
    [][(now' = now + 1 /\ NoHashColumn(central)) =>
          /\ \A i \in 1..Len(central) : \E j \in 1..Len(central') : central'[j] = central[i]
          /\ \E j \in 1..Len(central') :
                "hash" \in DOMAIN central'[j] /\ central'[j].timestamp = now']_vars

\* C28: the historical loop of fetch_openweather is left in the end, whatever
\* the answers of the server
C28_LoopTerminates == <>(ow_pc = "left")

\* the canonical column of the history frame for a column of the summary
Canon(c) == IF c = "n" THEN "n_era5" ELSE c

\* C29: every column a run_compare variant writes to the summary is recovered
\* with its value by normalize_columns
C29_WrittenColumnsRecovered ==
    summary_pc = "normalized" =>
        \A c \in SummaryColumns : summary_out[Canon(c)] = summary_full[c]

\* C30: every option the two callers pass to consolidated_analysis.py is an
\* option its parser defines, and no call is rejected at argument parsing
C30_PassedOptionsAreDefined ==
    /\ \A i \in 1..Len(cmd) : cmd[i] \in ParserOptions
    /\ arg_pc = "returned" => returncode # 2

====
